---- MODULE Spec2Model ----
(***************************************************************************)
(* A model of vrpr: the byte-encoded expression-tree GP engine             *)
(* (src/src/gp), the discrete-event dispatch simulator (src/src/sim), the  *)
(* serialisation of programs and the generational loop (src/src/main.rs).  *)
(* Each subsystem has its own specification over its own group of          *)
(* variables; the other groups stay at their idle values.                  *)
(***************************************************************************)
EXTENDS Integers, Sequences, FiniteSets, Bags, TLC

VARIABLES
    \* ---- node encoding (gp/program.rs, impl From<u8> / From<Node>)
    nodePc,        \* "byte" | "node" | "back"
    nodeByte,      \* the u8 being decoded
    nodeVal,       \* Node::from(nodeByte)
    nodeBack,      \* u8::from(nodeVal)
    \* ---- serialisation (gp/program.rs, run_length_* / base64)
    serPc,         \* "start" | "encoded" | "decoded" | "saved" | "loaded"
    overflowChecks,\* build profile: TRUE = overflow checks on (debug)
    v,             \* the byte vector / the program's nodes
    res,           \* run_length_encode(v)
    dec,           \* run_length_decode(res)
    str,           \* Program::base64()
    loaded,        \* Program::from_base64(str).nodes
    \* ---- GP engine (gp/mod.rs): two parents, the programs an operation returns
    p1, p2,        \* parent programs (their nodes: Vec<u8>)
    c1, c2,        \* the programs returned by the last operation
    gpOp,          \* the last operation and the outcome of its random draws
    gpPanic,       \* "none", or the expectation/assertion that failed
    \* ---- simulator (sim/mod.rs): the arguments of one simulation
    problem,       \* Problem: depot, requests, truck_speed, truck_capacity, num_trucks
    routing_rule,  \* the routing program
    sequencing_rule,\* the sequencing program
    time_slot,     \* simulate_until's time_slot
    time_max,      \* simulate_until's time_max
    \* ---- simulator: the fields of Simulation and the locals of simulate_until
    time,          \* Simulation.time
    vehicles,      \* Simulation.vehicles, indexed 0..num_trucks-1
    events,        \* Simulation.events: the bag of pending events
    total_distance,
    total_failed,
    simPc,         \* "start" | "loop" | "batch" | "sweep" | "post" | "done"
    event,         \* the event popped last
    batch,         \* the requests of the popped Requests event not yet handled
    sweepVehicle,  \* `vehicle` of the sweep `for vehicle in 0..num_trucks`
    inCall,        \* inside the while loop of update_vehicle_queue(sweepVehicle)
    cache,         \* the sequencing cache of that call
    \* ---- simulator: history
    cut,           \* the loop ended by the time_max break
    dispatchCount, \* per customer idx: the dispatches to it
    failCount,     \* per customer idx: the times it was counted failed
    eventLog,      \* what was done since the last pop, in order
    depotFor,      \* the customers whose demand sent a vehicle back to the depot
    \* ---- heap-index geometry (gp/mod.rs, depth_from_top / all_index_of_layer)
    geoPc,         \* "args" | "range" | "depth" | "both"
    geoLayer,      \* the argument of all_index_of_layer
    geoIndex,      \* the argument of depth_from_top
    geoRange,      \* all_index_of_layer(geoLayer): the indices of the Range
    geoDepth,      \* depth_from_top of geoIndex and of its two children
    \* ---- GPContext::ramp_half_and_half (gp/mod.rs)
    num_population,\* GPContext.num_population (POP_SIZE)
    max_depth,     \* GPContext.max_depth of the ramp (MAX_DEPTH)
    rampPc,        \* "full" | "grow" | "topup" | "done"
    rampDepth,     \* `depth` of `for depth in 1..self.max_depth`
    rampCount,     \* the inner iterations done at this depth
    rampV,         \* the Vec v: per program, the generator and depth that built it
    \* ---- the generational loop (main.rs, gp / Individual / select_parent)
    num_gen,       \* NUM_GEN
    gaPc,          \* "evaluate" | "best" | "offspring" | "done" | "panic"
    pop,           \* the Vec pop of Individuals
    gaCache,       \* the LruCache: cache key -> (dist, nb_fail, fitness)
    gen,           \* `gen` of `for gen in 1..=*NUM_GEN`
    evalAt,        \* the position of `for i in pop.iter_mut()`, from 1
    offspringIter, \* the iterations done of `for _ in 0..num_population / 2`
    \* ---- the generational loop: history
    simStream,     \* what the simulations on the training problem return, in order
    simRuns,       \* per cache key: the simulations evaluate ran on the training problem
    fullRuns,      \* the simulations of pop[0] on the full problem (main.rs 212-213)
    tournaments,   \* the two select_parent calls of the last offspring iteration
    \* ---- one call of a function of the evaluation (main.rs, sim/problem.rs, sim/mod.rs)
    fnPc,          \* "idle" | "args" | "ret"
    fnArgs,        \* the arguments of the call
    fnRet          \* what the call returned

nodeVars == <<nodePc, nodeByte, nodeVal, nodeBack>>
serVars  == <<serPc, overflowChecks, v, res, dec, str, loaded>>
gpVars   == <<p1, p2, c1, c2, gpOp, gpPanic>>
simArgs  == <<problem, routing_rule, sequencing_rule, time_slot, time_max>>
geoVars  == <<geoPc, geoLayer, geoIndex, geoRange, geoDepth>>
rampVars == <<num_population, max_depth, rampPc, rampDepth, rampCount, rampV>>
gaVars   == <<num_gen, gaPc, pop, gaCache, gen, evalAt, offspringIter,
              simStream, simRuns, fullRuns, tournaments>>
fnVars   == <<fnPc, fnArgs, fnRet>>
moreVars == <<geoVars, rampVars, gaVars, fnVars>>
simVars  == <<simArgs, time, vehicles, events, total_distance, total_failed,
              simPc, event, batch, sweepVehicle, inCall, cache,
              cut, dispatchCount, failCount, eventLog, depotFor>>

----------------------------------------------------------------------------
(* Shared helpers *)

U8_MAX == 255

Bytes == 0..U8_MAX

\* The outcome of a panic (unwrap/expect/assert/overflow check): no byte.
Panic == 0 - 1

Max(a, b) == IF a >= b THEN a ELSE b

Min(a, b) == IF a <= b THEN a ELSE b

----------------------------------------------------------------------------
(* Node encoding: gp/program.rs 82-102 *)

\* A constant node holds the f32 (x - 64) / 16.0; the model keeps that value as
\* its exact numerator over 16 (every such quotient is exact in f32).
ConstSixteenths(x) == x - 64

\* Faulty variant: the constant range ends one byte early.
NodeFromU8_ShortConst(x) ==
    IF x \in 0..127 THEN [kind |-> "Const", val |-> ConstSixteenths(x)]
    ELSE IF x \in 128..192 THEN [kind |-> "Terminal", val |-> x - 128]
    ELSE IF x \in 193..254 THEN [kind |-> "Internal", val |-> x - 193]
    ELSE [kind |-> "Null", val |-> 0]

\* impl From<u8> for Node
NodeFromU8(x) ==
    IF x \in 0..128 THEN [kind |-> "Const", val |-> ConstSixteenths(x)]
    ELSE IF x \in 129..192 THEN [kind |-> "Terminal", val |-> x - 129]
    ELSE IF x \in 193..254 THEN [kind |-> "Internal", val |-> x - 193]
    ELSE [kind |-> "Null", val |-> 0]

\* `as u8` of a float: saturating.
AsU8(n) == IF n < 0 THEN 0 ELSE IF n > U8_MAX THEN U8_MAX ELSE n

\* usize -> u8 try_into().unwrap()
TryIntoU8(n) == IF n \in Bytes THEN n ELSE Panic

\* impl From<Node> for u8; (x * 16.0 + 64.0) of x = s/16 is s + 64.
U8FromNode(node) ==
    CASE node.kind = "Const"    -> AsU8(node.val + 64)
      [] node.kind = "Terminal" -> TryIntoU8(129 + node.val)
      [] node.kind = "Internal" -> TryIntoU8(193 + node.val)
      [] OTHER                  -> U8_MAX

NullByte == U8FromNode([kind |-> "Null", val |-> 0])

IsNull(byte) == NodeFromU8(byte).kind = "Null"

----------------------------------------------------------------------------
(* Run-length coding and base64: gp/program.rs 225-258 *)

Last(s) == s[Len(s)]

\* One iteration of the loop of run_length_encode on `byte`.
RleStep(r, byte) ==
    IF Len(r) < 2 \/ r[Len(r) - 1] # byte \/ r[Len(r)] = U8_MAX
    THEN r \o <<byte, 0>>
    ELSE [r EXCEPT ![Len(r)] = r[Len(r)] + 1]

\* The loop of run_length_encode over bytes[lo..hi], in order, from the
\* result r so far.  The range is split in halves, and the left half's result
\* is computed (the test on its length) before the right half runs on it, only
\* to keep the evaluation shallow.
RECURSIVE RleFold(_, _, _, _)
RleFold(bytes, lo, hi, r) ==
    IF lo > hi THEN r
    ELSE IF lo = hi THEN RleStep(r, bytes[lo])
    ELSE LET mid == (lo + hi) \div 2
             left == RleFold(bytes, lo, mid, r)
         IN  IF Len(left) >= 0 THEN RleFold(bytes, mid + 1, hi, left) ELSE left

\* Program::run_length_encode
run_length_encode(bytes) == RleFold(bytes, 1, Len(bytes), <<>>)

Repeat(byte, n) == [k \in 1..n |-> byte]

\* Faulty variant: the stored count is taken as the number of copies.
CountPlusOne_NoPlus(c, checks) == c

\* v[i * 2 + 1] + 1 in u8: with overflow checks a panic, without them a wrap.
CountPlusOne(c, checks) ==
    IF c + 1 > U8_MAX THEN (IF checks THEN Panic ELSE (c + 1) % 256) ELSE c + 1

RECURSIVE RleUnfold(_, _, _, _)
RleUnfold(pairs, i, r, checks) ==
    IF i > Len(pairs) \div 2 THEN r
    ELSE LET n == CountPlusOne(pairs[2 * i], checks)
         IN  IF n = Panic THEN <<Panic>>
             ELSE RleUnfold(pairs, i + 1, r \o Repeat(pairs[2 * i - 1], n), checks)

\* Program::run_length_decode; <<Panic>> when it panics.
run_length_decode(pairs, checks) ==
    IF Len(pairs) % 2 # 0 THEN <<Panic>> ELSE RleUnfold(pairs, 1, <<>>, checks)

\* The padding character '=' of BASE64_STANDARD, after the 64 alphabet indices.
PadChar == 64

\* The characters of one group of 1..3 bytes.
B64Group(g) ==
    LET b1 == g[1]
        b2 == IF Len(g) >= 2 THEN g[2] ELSE 0
        b3 == IF Len(g) >= 3 THEN g[3] ELSE 0
        n  == b1 * 65536 + b2 * 256 + b3
    IN  << n \div 262144,
           (n \div 4096) % 64,
           IF Len(g) >= 2 THEN (n \div 64) % 64 ELSE PadChar,
           IF Len(g) >= 3 THEN n % 64 ELSE PadChar >>

RECURSIVE B64EncodeFrom(_, _)
B64EncodeFrom(bytes, i) ==
    IF i > Len(bytes) THEN <<>>
    ELSE B64Group(SubSeq(bytes, i, Min(i + 2, Len(bytes))))
            \o B64EncodeFrom(bytes, i + 3)

\* BASE64_STANDARD.encode
Base64Encode(bytes) == B64EncodeFrom(bytes, 1)

\* The bytes of one group of 4 characters.
B64Ungroup(c) ==
    LET pad == IF c[3] = PadChar THEN 2 ELSE IF c[4] = PadChar THEN 1 ELSE 0
        c3  == IF c[3] = PadChar THEN 0 ELSE c[3]
        c4  == IF c[4] = PadChar THEN 0 ELSE c[4]
        n   == c[1] * 262144 + c[2] * 4096 + c3 * 64 + c4
    IN  SubSeq(<< n \div 65536, (n \div 256) % 256, n % 256 >>, 1, 3 - pad)

RECURSIVE B64DecodeFrom(_, _)
B64DecodeFrom(chars, i) ==
    IF i > Len(chars) THEN <<>>
    ELSE B64Ungroup(SubSeq(chars, i, i + 3)) \o B64DecodeFrom(chars, i + 4)

\* BASE64_STANDARD.decode(..).expect("invalid base64")
Base64Decode(chars) ==
    IF Len(chars) % 4 # 0 THEN <<Panic>> ELSE B64DecodeFrom(chars, 1)

\* Program::base64
base64(nodes) == Base64Encode(run_length_encode(nodes))

\* Program::from_base64 (its nodes)
from_base64(s, checks) ==
    LET bytes == Base64Decode(s)
    IN  IF bytes = <<Panic>> THEN <<Panic>> ELSE run_length_decode(bytes, checks)

----------------------------------------------------------------------------
(* Program representation: gp/program.rs 146-278.  nodes is 0-indexed in   *)
(* the source and 1-indexed here: slot i is nodes[i + 1].                  *)

MAX_PROGRAM_NODE_CHILDREN == 2

\* common_internal_num_children (sim/ctx.rs 24-26)
internal_num_children(index) == 2

\* Program::child_indices, as the set of the children's indices
child_indices(index, num_children) ==
    { index * MAX_PROGRAM_NODE_CHILDREN + i + 1 : i \in 0..(num_children - 1) }

\* self.nodes[index], decoded; reading past the end panics in the source.
NodeAt(nodes, index) ==
    IF index < Len(nodes) THEN NodeFromU8(nodes[index + 1])
    ELSE [kind |-> "OutOfBounds", val |-> 0]

\* Program::ensure_index_exist
ensure_index_exist(nodes, index) ==
    [k \in 1..Max(Len(nodes), index + 1) |->
        IF k <= Len(nodes) THEN nodes[k] ELSE NullByte]

\* The first two statements of Program::generate_at: grow, then write value.
WriteAt(nodes, index, value) ==
    [ensure_index_exist(nodes, index) EXCEPT ![index + 1] = value]

\* The children the traversals descend into at `index`.
ChildrenOf(nodes, index) ==
    LET node == NodeAt(nodes, index)
    IN  IF node.kind = "Internal"
        THEN child_indices(index, internal_num_children(node.val))
        ELSE {}

\* Program::collect_all_active_indices, as a set.  An index past the end is
\* pushed before the read that panics; TraversalPanics tells.
RECURSIVE collect_all_active_indices(_, _)
collect_all_active_indices(nodes, index) ==
    {index} \cup UNION { collect_all_active_indices(nodes, c) :
                            c \in ChildrenOf(nodes, index) }

\* Program::all_active_indices
all_active_indices(nodes) == collect_all_active_indices(nodes, 0)

TraversalPanics(nodes, index) ==
    \E i \in collect_all_active_indices(nodes, index) : i >= Len(nodes)

SetMax(S) == CHOOSE x \in S : \A y \in S : y <= x

\* Faulty variant: the nodes below the chosen index are left in place.
clear_subtree_RootOnly(nodes, index) ==
    [k \in 1..Len(nodes) |-> IF k - 1 = index THEN NullByte ELSE nodes[k]]

\* Program::clear_subtree
clear_subtree(nodes, index) ==
    LET indices == collect_all_active_indices(nodes, index)
    IN  [k \in 1..Len(nodes) |-> IF (k - 1) \in indices THEN NullByte ELSE nodes[k]]

\* The check inside Program::verify's debug_assert, as written: `any` slot
\* whose activity differs from its nullness.
verify(nodes) ==
    LET all_actives == all_active_indices(nodes)
    IN  \E idx \in 0..(Len(nodes) - 1) :
            (idx \in all_actives) # IsNull(nodes[idx + 1])

----------------------------------------------------------------------------
(* GP engine: gp/mod.rs *)

\* The depth cap GPContext.max_depth of the model's runs.
MaxDepth == 2

\* The outcomes of the random draws the model enumerates: the terminal
\* index of gen_range(0..num_terminals), the bucket of gen_range(0u8..=8),
\* the internal index of gen_range(0..num_internals).
TerminalDraws == {0}
ConstDraws == {8}
InternalDraws == {0}

\* GPContext::gen_terminal_at: every program it can leave behind.
gen_terminal_at(nodes, index) ==
    { WriteAt(nodes, index, U8FromNode([kind |-> "Terminal", val |-> t])) :
        t \in TerminalDraws }
    \cup { WriteAt(nodes, index, c * 16) : c \in ConstDraws }

\* The byte gen_internal_at / gen_generic_at write for internal index k.
InternalByte(k) == U8FromNode([kind |-> "Internal", val |-> k])

\* The index of child i of `index` (generate_at, copy_subtree).
ChildIndex(index, i) == index * MAX_PROGRAM_NODE_CHILDREN + i + 1

\* Faulty variant: the recursion stops one level late.
RECURSIVE gen_full_at_Deep(_, _, _)
gen_full_at_Deep(nodes, index, depth) ==
    IF depth < 0 THEN gen_terminal_at(nodes, index)
    ELSE UNION { UNION { gen_full_at_Deep(n1, ChildIndex(index, 1), depth - 1) :
                           n1 \in gen_full_at_Deep(w, ChildIndex(index, 0), depth - 1) } :
                 w \in { WriteAt(nodes, index, InternalByte(k)) : k \in InternalDraws } }

\* GPContext::gen_full_at (with gen_internal_at and generate_at): every
\* program the draws can leave behind.  w is the program after the node is
\* written, n1 the program after the first child's subtree is generated.
RECURSIVE gen_full_at(_, _, _)
gen_full_at(nodes, index, depth) ==
    IF depth = 0 THEN gen_terminal_at(nodes, index)
    ELSE UNION { UNION { gen_full_at(n1, ChildIndex(index, 1), depth - 1) :
                           n1 \in gen_full_at(w, ChildIndex(index, 0), depth - 1) } :
                 w \in { WriteAt(nodes, index, InternalByte(k)) : k \in InternalDraws } }

\* GPContext::gen_grow_at (with gen_generic_at: a terminal, or an internal and
\* its children)
RECURSIVE gen_grow_at(_, _, _)
gen_grow_at(nodes, index, depth) ==
    IF depth = 0 THEN gen_terminal_at(nodes, index)
    ELSE { WriteAt(nodes, index, U8FromNode([kind |-> "Terminal", val |-> t])) :
             t \in TerminalDraws }
         \cup
         UNION { UNION { gen_grow_at(n1, ChildIndex(index, 1), depth - 1) :
                           n1 \in gen_grow_at(w, ChildIndex(index, 0), depth - 1) } :
                 w \in { WriteAt(nodes, index, InternalByte(k)) : k \in InternalDraws } }

\* usize::ilog2
RECURSIVE ilog2(_)
ilog2(n) == IF n <= 1 THEN 0 ELSE 1 + ilog2(n \div 2)

\* GPContext::depth_from_top
depth_from_top(index) == ilog2(index + 1)

\* GPContext::depth_to_bottom
RECURSIVE depth_to_bottom(_, _)
depth_to_bottom(nodes, index) ==
    LET cs == ChildrenOf(nodes, index)
    IN  IF cs = {} THEN 0
        ELSE SetMax({ depth_to_bottom(nodes, c) + 1 : c \in cs })

\* Faulty variant: only the node at the index is copied, not what is below it.
copy_subtree_Shallow(dest, dest_index, src, src_index) ==
    WriteAt(dest, dest_index, src[src_index + 1])

\* GPContext::copy_subtree: the node is written, then the children are copied
\* in order (w, left: the destination after each step).
RECURSIVE copy_subtree(_, _, _, _)
copy_subtree(dest, dest_index, src, src_index) ==
    LET num_children == Cardinality(ChildrenOf(src, src_index))
    IN  CHOOSE done \in
          { IF num_children >= 2
            THEN copy_subtree(left, ChildIndex(dest_index, 1), src,
                              ChildIndex(src_index, 1))
            ELSE left :
              left \in { IF num_children >= 1
                         THEN copy_subtree(w, ChildIndex(dest_index, 0), src,
                                           ChildIndex(src_index, 0))
                         ELSE w :
                           w \in { WriteAt(dest, dest_index, src[src_index + 1]) } } } :
          TRUE

\* Faulty variant: the range includes its end.
all_index_of_layer_Closed(layer) == (2 ^ layer - 1)..(2 ^ (layer + 1) - 1)

\* GPContext::all_index_of_layer
all_index_of_layer(layer) == (2 ^ layer - 1)..(2 ^ (layer + 1) - 2)

\* The filtered candidates of crossover: the non-null slots of a layer.
LayerCandidates(nodes, layer) ==
    { i \in all_index_of_layer(layer) : i < Len(nodes) /\ ~IsNull(nodes[i + 1]) }

\* Faulty variant: the lower end of the range is always layer 0.
min_depth_point2_Zero(depth_point1, depth2) == 0

\* (depth_point1 + depth2).saturating_sub(max_depth)
min_depth_point2(depth_point1, depth2) == Max(depth_point1 + depth2 - MaxDepth, 0)

\* Faulty variant: the upper end is not capped by the depth of p2.
max_depth_point2_NoMin(depth1, depth_point1, depth2) ==
    MaxDepth - depth1 + depth_point1

\* (max_depth - depth1 + depth_point1).min(depth2)
max_depth_point2(depth1, depth_point1, depth2) ==
    Min(MaxDepth - depth1 + depth_point1, depth2)

----------------------------------------------------------------------------
(* Simulator: sim/mod.rs, sim/problem.rs, sim/ctx.rs *)

\* f32 arithmetic on whole numbers: a result below 2^24 is exact, a larger one
\* is rounded to the 24-bit significand, ties to even.
RoundF32Pos(n) ==
    IF n < 2 ^ 24 THEN n
    ELSE LET ulp == 2 ^ (ilog2(n) - 23)
             q == n \div ulp
             r == n % ulp
         IN  IF 2 * r < ulp THEN q * ulp
             ELSE IF 2 * r > ulp THEN (q + 1) * ulp
             ELSE IF q % 2 = 0 THEN q * ulp ELSE (q + 1) * ulp

RoundF32(n) == IF n < 0 THEN 0 - RoundF32Pos(0 - n) ELSE RoundF32Pos(n)

\* Option::None of an index.
None == 0 - 1

\* The request with index idx of a problem: the depot has idx 0, the
\* customers 1.. in the order of problem.requests (Problem::load).
RequestOf(prob, idx) == IF idx = 0 THEN prob.depot ELSE prob.requests[idx]

\* VehicleState::new
NewVehicleState(prob) ==
    [cur_request |-> 0, queue |-> <<>>,
     total_demand |-> prob.truck_capacity, busy_until |-> 0]

\* VehicleState::dist; every request of the model lies on the line y = 0,
\* where sqrt(x * x + 0) is |x| exactly.
dist(x) == IF x < 0 THEN 0 - x ELSE x

\* Faulty variant: no leg has a length.
distance_to_Zero(prob, veh, request) == 0

\* VehicleState::distance_to
distance_to(prob, veh, request) ==
    dist(RequestOf(prob, veh.cur_request).x - request.x)

\* Faulty variant: travelling takes no time.
raw_time_cost_Free(prob, veh, request) == 0

\* VehicleState::raw_time_cost (the truck speeds of the model divide exactly)
raw_time_cost(prob, veh, request) ==
    distance_to(prob, veh, request) \div prob.truck_speed

\* Faulty variant: the wait for the window to open is left out.
time_cost_Raw(prob, veh, request, t) == raw_time_cost(prob, veh, request)

\* Faulty variant: the wait for the window is added to the travel time.
time_cost_Sum(prob, veh, request, t) ==
    raw_time_cost(prob, veh, request) + Max(0, RoundF32(request.open - t))

\* VehicleState::time_cost
time_cost(prob, veh, request, t) ==
    Max(raw_time_cost(prob, veh, request), RoundF32(request.open - t))

\* VehicleState::enqueue
enqueue(veh, request, t) ==
    [veh EXCEPT !.queue = Append(@, [request |-> request.idx, ready_time |-> t])]

\* Faulty variant: the element stays in the vector.
swap_remove_Keep(queue, index) == queue

\* Vec::swap_remove(index), index counted from 0
swap_remove(queue, index) ==
    LET last == Len(queue)
    IN  [k \in 1..(last - 1) |-> IF k = index + 1 THEN queue[last] ELSE queue[k]]

\* The value of the routing program for one vehicle.  The programs of the model
\* are single terminals of RoutingContext::terminal; all of them divide by
\* depot.close > 0, which keeps the order of the numerators given here.
\*   "T2": (busy_until - time) / depot.close
\*   "T3": raw_time_cost / depot.close
RoutingValue(rule, prob, veh, request, t) ==
    IF rule = "T2" THEN RoundF32(veh.busy_until - t)
    ELSE raw_time_cost(prob, veh, request)

\* Faulty variant: no vehicle is filtered out.
RoutingCandidates_All(prob, t, vs, request) == DOMAIN vs

\* The filter of route_request: the vehicles that reach the request in time.
RoutingCandidates(prob, t, vs, request) ==
    { vehicle \in DOMAIN vs :
        RoundF32(t + raw_time_cost(prob, vs[vehicle], request)) <= request.close }

\* min_by_key over an ascending index range: the first index of least key.
FirstMinBy(S, key(_)) ==
    IF S = {} THEN None
    ELSE CHOOSE i \in S : \A j \in S : key(i) < key(j) \/ (key(i) = key(j) /\ i <= j)

\* RoutingRule::route_request
route_request(rule, prob, t, vs, request) ==
    LET value(vehicle) == RoutingValue(rule, prob, vs[vehicle], request, t)
    IN  FirstMinBy(RoutingCandidates(prob, t, vs, request), value)

\* The value of the sequencing program for one queue entry (terminals of
\* SequencingContext::terminal, numerators as above).
\*   "T3": raw_time_cost / depot.close
\*   "T5": ready_time / depot.close
SequencingValue(rule, prob, veh, entry) ==
    IF rule = "T3" THEN raw_time_cost(prob, veh, RequestOf(prob, entry.request))
    ELSE entry.ready_time

\* The cache after sequence_request: or_insert_with computes the value of
\* every queued request that has no entry yet and keeps the others.
CacheAfter(rule, prob, veh, cch) ==
    LET queued == { veh.queue[k].request : k \in 1..Len(veh.queue) }
        FirstEntry(idx) ==
            veh.queue[CHOOSE k \in 1..Len(veh.queue) :
                         /\ veh.queue[k].request = idx
                         /\ \A m \in 1..(k - 1) : veh.queue[m].request # idx]
    IN  [idx \in (DOMAIN cch) \cup queued |->
            IF idx \in DOMAIN cch THEN cch[idx]
            ELSE SequencingValue(rule, prob, veh, FirstEntry(idx))]

\* SequencingRule::sequence_request: the index (from 0) of the first queue
\* entry of least cached value, None for an empty queue.
sequence_request(rule, prob, veh, cch) ==
    LET after == CacheAfter(rule, prob, veh, cch)
        value(i) == after[veh.queue[i + 1].request]
    IN  FirstMinBy(0..(Len(veh.queue) - 1), value)

\* Simulation::handle_request: the vehicles and the failure count afterwards.
handle_request(rule, prob, t, vs, request) ==
    LET vehicle == route_request(rule, prob, t, vs, request)
    IN  IF vehicle # None
        THEN [vehicles |-> [vs EXCEPT ![vehicle] = enqueue(@, request, t)],
              failed |-> 0, vehicle |-> vehicle]
        ELSE [vehicles |-> vs, failed |-> 1, vehicle |-> None]

\* An event of the heap; both variants carry every field.
RequestsEvent(requests, t) ==
    [type |-> "Requests", requests |-> requests, vehicle |-> None,
     request |-> None, time |-> t]

VehicleFinish(vehicle, request, t) ==
    [type |-> "VehicleFinish", requests |-> <<>>, vehicle |-> vehicle,
     request |-> request, time |-> t]

\* Faulty variant: the service time is left out of the finish time.
route_vehicle_to_NoService(prob, t, veh, vehicle, request) ==
    LET distance == distance_to(prob, veh, request)
        finish == Max(RoundF32(t + distance \div prob.truck_speed), request.open)
    IN  [state |-> [veh EXCEPT
                      !.total_demand = IF request.idx = 0 THEN prob.truck_capacity
                                       ELSE RoundF32(@ - request.demand),
                      !.cur_request = request.idx,
                      !.busy_until = finish],
         event |-> VehicleFinish(vehicle, request.idx, finish),
         distance |-> distance]

\* Simulation::route_vehicle_to: the vehicle afterwards, the event pushed and
\* the distance added.
route_vehicle_to(prob, t, veh, vehicle, request) ==
    LET distance == distance_to(prob, veh, request)
        finish == RoundF32(Max(RoundF32(t + distance \div prob.truck_speed),
                               request.open) + request.service_time)
    IN  [state |-> [veh EXCEPT
                      !.total_demand = IF request.idx = 0 THEN prob.truck_capacity
                                       ELSE RoundF32(@ - request.demand),
                      !.cur_request = request.idx,
                      !.busy_until = finish],
         event |-> VehicleFinish(vehicle, request.idx, finish),
         distance |-> distance]

\* Faulty variant: any pending event may be popped.
PopCandidates_Any(evs) == BagToSet(evs)

\* The events a binary heap ordered by time alone may pop next: those of least
\* time (the order among equal times is the heap's own).
PopCandidates(evs) ==
    { e \in BagToSet(evs) : \A o \in BagToSet(evs) : e.time <= o.time }

\* (a / b).ceil() in f32 for whole a >= 0 and b > 0: the quotient is rounded to
\* the 24-bit significand, ties to even, before ceil sees it.
CeilDivF32(a, b) ==
    IF a < b THEN (IF a = 0 THEN 0 ELSE 1)
    ELSE IF a \div b >= 2 ^ 23
    THEN LET ulp == 2 ^ (ilog2(a \div b) - 23)
             q == a \div (ulp * b)
             r == a % (ulp * b)
         IN  IF 2 * r < ulp * b THEN q * ulp
             ELSE IF 2 * r > ulp * b THEN (q + 1) * ulp
             ELSE IF q % 2 = 0 THEN q * ulp ELSE (q + 1) * ulp
    ELSE LET scale == 2 ^ (23 - ilog2(a \div b))
             q == (a * scale) \div b
             r == (a * scale) % b
             m == IF 2 * r < b THEN q
                  ELSE IF 2 * r > b THEN q + 1
                  ELSE IF q % 2 = 0 THEN q ELSE q + 1
         IN  (m + scale - 1) \div scale

\* (request.time / time_slot).ceil() as i32, then idx as f32 * time_slot
timeslot_idx(request, slot) == CeilDivF32(request.time, slot)

BatchTime(idx, slot) == RoundF32(RoundF32(idx) * slot)

\* The Requests events simulate_until pushes before its loop: one per time
\* slot index, holding the requests of that slot in problem order.
BatchedRequests(prob, slot) ==
    LET idxs == { timeslot_idx(prob.requests[k], slot) : k \in 1..Len(prob.requests) }
        InSlot(k, i) == timeslot_idx(prob.requests[k], slot) = i
        Members(i) == SelectSeq([k \in 1..Len(prob.requests) |-> k],
                                LAMBDA k : InSlot(k, i))
    IN  SetToBag({ RequestsEvent(Members(i), BatchTime(i, slot)) : i \in idxs })

----------------------------------------------------------------------------
(* The problems and rules of the simulator runs *)

NumTrucks == 2
NumCustomers == 3

\* Problem::load gives every request, the depot included, this service time.
SERVICE_TIME == 10

\* Problem::load(&path, 1.0, ...) in main: the truck speed.
TRUCK_SPEED == 1

\* The customers the problems of the model are made of.  The capacity of a
\* truck is 3.  "oversized" asks for more than a truck holds and arrives when
\* the clock has reached 2^28; "inverted" opens after it closes.
CustomerKinds ==
    { [kind |-> "near",      x |-> 1,      demand |-> 2, open |-> 0,  close |-> 100,    time |-> 0],
      [kind |-> "far",       x |-> 0 - 30, demand |-> 1, open |-> 0,  close |-> 100,    time |-> 2],
      [kind |-> "tight",     x |-> 2,      demand |-> 2, open |-> 0,  close |-> 60,     time |-> 2],
      [kind |-> "late",      x |-> 30,     demand |-> 1, open |-> 0,  close |-> 10,     time |-> 0],
      [kind |-> "oversized", x |-> 1,      demand |-> 4, open |-> 0,  close |-> 2 ^ 29, time |-> 2 ^ 28],
      [kind |-> "inverted",  x |-> 1,      demand |-> 1, open |-> 50, close |-> 20,     time |-> 0] }

Depot ==
    [idx |-> 0, kind |-> "depot", x |-> 0, demand |-> 0, open |-> 0,
     close |-> 2 ^ 30, service_time |-> SERVICE_TIME, time |-> 0]

\* The request list made of the given customers, idx in file order.
RequestList(kinds) ==
    [k \in 1..Len(kinds) |->
        [idx |-> k, kind |-> kinds[k].kind, x |-> kinds[k].x,
         demand |-> kinds[k].demand, open |-> kinds[k].open,
         close |-> kinds[k].close, service_time |-> SERVICE_TIME,
         time |-> kinds[k].time]]

\* The problems of the model: 1..NumTrucks trucks and 1..NumCustomers
\* customers, at most one of them oversized and at most one inverted.
AtMostOne(kinds, kind) ==
    Cardinality({ k \in 1..Len(kinds) : kinds[k].kind = kind }) <= 1

Problems ==
    { [depot |-> Depot, requests |-> RequestList(kinds), truck_speed |-> TRUCK_SPEED,
       truck_capacity |-> 3, num_trucks |-> trucks] :
        kinds \in { ks \in UNION { [1..n -> CustomerKinds] : n \in 1..NumCustomers } :
                       AtMostOne(ks, "oversized") /\ AtMostOne(ks, "inverted") },
        trucks \in 1..NumTrucks }

RoutingRules == {"T2", "T3"}
SequencingRules == {"T3", "T5"}
TimeSlots == {2, 3}
\* A time_max that cuts the run short, and one no event of the model reaches
\* (main passes f32::MAX).
TimeMaxes == {30, 2 ^ 30}

----------------------------------------------------------------------------
(* Idle values of the groups a specification does not use *)

ZeroCounts(prob) == [idx \in 1..Len(prob.requests) |-> 0]

NoEvent == RequestsEvent(<<>>, 0)

SimIdle ==
    /\ problem = [depot |-> Depot, requests |-> <<>>, truck_speed |-> TRUCK_SPEED,
                  truck_capacity |-> 3, num_trucks |-> 0]
    /\ routing_rule = "T2" /\ sequencing_rule = "T3"
    /\ time_slot = 2 /\ time_max = 30
    /\ time = 0 /\ vehicles = <<>> /\ events = EmptyBag
    /\ total_distance = 0 /\ total_failed = 0
    /\ simPc = "idle" /\ event = NoEvent /\ batch = <<>> /\ sweepVehicle = 0
    /\ inCall = FALSE /\ cache = <<>>
    /\ cut = FALSE /\ dispatchCount = <<>> /\ failCount = <<>> /\ eventLog = <<>>
    /\ depotFor = {}


NodeIdle ==
    /\ nodePc = "idle" /\ nodeByte = 0 /\ nodeVal = NodeFromU8(0) /\ nodeBack = 0

SerIdle ==
    /\ serPc = "idle" /\ overflowChecks = FALSE /\ v = <<>> /\ res = <<>>
    /\ dec = <<>> /\ str = <<>> /\ loaded = <<>>

NoOp == [op |-> "none", depth |-> 0, d1 |-> 0, d2 |-> 0, swap1 |-> 0, swap2 |-> 0]

GpIdle ==
    /\ p1 = <<>> /\ p2 = <<>> /\ c1 = <<>> /\ c2 = <<>>
    /\ gpOp = NoOp /\ gpPanic = "idle"

GeoIdle ==
    /\ geoPc = "idle" /\ geoLayer = 0 /\ geoIndex = 0
    /\ geoRange = {} /\ geoDepth = <<>>

RampIdle ==
    /\ num_population = 0 /\ max_depth = 0
    /\ rampPc = "idle" /\ rampDepth = 0 /\ rampCount = 0 /\ rampV = <<>>

GaIdle ==
    /\ num_gen = 0 /\ gaPc = "idle" /\ pop = <<>> /\ gaCache = <<>> /\ gen = 0
    /\ evalAt = 0 /\ offspringIter = 0 /\ simStream = <<>>
    /\ simRuns = <<>> /\ fullRuns = <<>> /\ tournaments = <<>>

FnIdle == fnPc = "idle" /\ fnArgs = <<>> /\ fnRet = <<>>

MoreIdle == GeoIdle /\ RampIdle /\ GaIdle /\ FnIdle

----------------------------------------------------------------------------
(* Specification of the node encoding *)

NodeInit ==
    /\ nodePc = "byte" /\ nodeByte \in Bytes
    /\ nodeVal = NodeFromU8(0) /\ nodeBack = 0
    /\ SerIdle /\ GpIdle /\ SimIdle /\ MoreIdle

\* Node::from(byte)
Decode ==
    /\ nodePc = "byte"
    /\ nodeVal' = NodeFromU8(nodeByte)
    /\ nodePc' = "node"
    /\ UNCHANGED <<nodeByte, nodeBack, serVars, gpVars, simVars, moreVars>>

\* u8::from(node)
Encode ==
    /\ nodePc = "node"
    /\ nodeBack' = U8FromNode(nodeVal)
    /\ nodePc' = "back"
    /\ UNCHANGED <<nodeByte, nodeVal, serVars, gpVars, simVars, moreVars>>

NodeNext == Decode \/ Encode

----------------------------------------------------------------------------
(* Specification of the serialisation *)

\* The byte vectors of the model: up to MaxRuns runs, each of one of RunBytes
\* repeated one of RunLens times (adjacent runs of the same byte merge).
MaxRuns == 3
RunBytes == {193, U8_MAX}
RunLens == {1, 2, 120, 255}

RECURSIVE RunVectors(_)
RunVectors(n) ==
    IF n = 0 THEN {<<>>}
    ELSE LET shorter == RunVectors(n - 1)
         IN  shorter \cup { w \o Repeat(b, l) :
                              w \in shorter, b \in RunBytes, l \in RunLens }

SerInit ==
    /\ serPc = "start"
    /\ overflowChecks \in BOOLEAN
    /\ v \in RunVectors(MaxRuns)
    /\ res = <<>> /\ dec = <<>> /\ str = <<>> /\ loaded = <<>>
    /\ NodeIdle /\ GpIdle /\ SimIdle /\ MoreIdle

\* Program::run_length_encode(&v)
RunLengthEncode ==
    /\ serPc = "start"
    /\ res' = run_length_encode(v)
    /\ serPc' = "encoded"
    /\ UNCHANGED <<overflowChecks, v, dec, str, loaded, nodeVars, gpVars, simVars, moreVars>>

\* Program::run_length_decode(&res)
RunLengthDecode ==
    /\ serPc = "encoded"
    /\ dec' = run_length_decode(res, overflowChecks)
    /\ serPc' = "decoded"
    /\ UNCHANGED <<overflowChecks, v, res, str, loaded, nodeVars, gpVars, simVars, moreVars>>

\* Program{nodes: v}.base64()
ToBase64 ==
    /\ serPc = "start"
    /\ str' = base64(v)
    /\ serPc' = "saved"
    /\ UNCHANGED <<overflowChecks, v, res, dec, loaded, nodeVars, gpVars, simVars, moreVars>>

\* Program::from_base64(&str)
FromBase64 ==
    /\ serPc = "saved"
    /\ loaded' = from_base64(str, overflowChecks)
    /\ serPc' = "loaded"
    /\ UNCHANGED <<overflowChecks, v, res, dec, str, nodeVars, gpVars, simVars, moreVars>>

SerNext == RunLengthEncode \/ RunLengthDecode \/ ToBase64 \/ FromBase64

----------------------------------------------------------------------------
(* Specification of the GP engine *)

GpInit ==
    /\ p1 = <<>> /\ p2 = <<>> /\ c1 = <<>> /\ c2 = <<>>
    /\ gpOp = NoOp /\ gpPanic = "none"
    /\ NodeIdle /\ SerIdle /\ SimIdle /\ MoreIdle

\* p1 and p2 are the arguments of the next call, c1 and c2 the programs the
\* last call returned; a call is made when no returned program is pending.
NoPending == c1 = <<>> /\ c2 = <<>> /\ gpPanic = "none"

\* let mut p = Program::new(); gen_full_at(&mut p, 0, depth)  (ramp_half_and_half)
GenFull ==
    /\ NoPending /\ p2 = <<>>
    /\ \E depth \in 0..MaxDepth :
         \E n \in gen_full_at(<<>>, 0, depth) :
            /\ c1' = n
            /\ gpOp' = [NoOp EXCEPT !.op = "gen_full", !.depth = depth]
    /\ UNCHANGED <<p1, p2, c2, gpPanic, nodeVars, serVars, simVars, moreVars>>

\* let mut p = Program::new(); gen_grow_at(&mut p, 0, depth)  (ramp_half_and_half)
GenGrow ==
    /\ NoPending /\ p2 = <<>>
    /\ \E depth \in 0..MaxDepth :
         \E n \in gen_grow_at(<<>>, 0, depth) :
            /\ c1' = n
            /\ gpOp' = [NoOp EXCEPT !.op = "gen_grow", !.depth = depth]
    /\ UNCHANGED <<p1, p2, c2, gpPanic, nodeVars, serVars, simVars, moreVars>>

\* The returned programs join the population (main.rs 193, 256-267) and the
\* arguments of the next call are selected among the programs at hand
\* (select_parent): one for a mutation, two for a crossover.
Select ==
    /\ c1 # <<>> /\ gpPanic = "none"
    /\ LET atHand == {p1, p2, c1, c2} \ {<<>>}
       IN  \E a \in atHand, b \in atHand \cup {<<>>} :
              p1' = a /\ p2' = b
    /\ c1' = <<>> /\ c2' = <<>> /\ gpOp' = NoOp
    /\ UNCHANGED <<gpPanic, nodeVars, serVars, simVars, moreVars>>

\* GPContext::mutation(&p1)
Mutation ==
    /\ NoPending /\ p1 # <<>> /\ p2 = <<>>
    /\ \E swap_pos \in all_active_indices(p1) :
         \E cleared \in {clear_subtree(p1, swap_pos)} :
         \E n \in gen_grow_at(cleared, swap_pos,
                              MaxDepth - depth_from_top(swap_pos)) :
            /\ c1' = n
            /\ gpOp' = [NoOp EXCEPT !.op = "mutation", !.swap1 = swap_pos]
    /\ UNCHANGED <<p1, p2, c2, gpPanic, nodeVars, serVars, simVars, moreVars>>

\* The two children of crossover for the drawn swap indices: each clone is
\* cleared below its index, then the other parent's subtree is copied in.
CrossoverChildren(q1, q2, swap_idx1, swap_idx2) ==
    CHOOSE cs \in
      { << copy_subtree(cleared1, swap_idx1, q2, swap_idx2),
           copy_subtree(cleared2, swap_idx2, q1, swap_idx1) >> :
          cleared1 \in {clear_subtree(q1, swap_idx1)},
          cleared2 \in {clear_subtree(q2, swap_idx2)} } : TRUE

\* A crossover that dies on the way: the children are never returned.
CrossoverPanics(why, d1, d2) ==
    /\ gpPanic' = why
    /\ gpOp' = [NoOp EXCEPT !.op = "crossover", !.d1 = d1, !.d2 = d2]
    /\ UNCHANGED <<c1, c2>>

\* GPContext::crossover(&p1, &p2)
Crossover ==
    /\ NoPending /\ p1 # <<>> /\ p2 # <<>>
    /\ LET depth1 == depth_to_bottom(p1, 0)
           depth2 == depth_to_bottom(p2, 0)
       IN  \E depth_point1 \in 0..depth1 :
             LET lo == min_depth_point2(depth_point1, depth2)
                 hi == max_depth_point2(depth1, depth_point1, depth2)
             IN  IF depth1 > MaxDepth
                 THEN CrossoverPanics("subtract_overflow", depth_point1, 0)
                 ELSE IF lo > hi
                 THEN CrossoverPanics("empty_range", depth_point1, 0)
                 ELSE \E depth_point2 \in lo..hi :
                    IF LayerCandidates(p1, depth_point1) = {}
                       \/ LayerCandidates(p2, depth_point2) = {}
                    THEN CrossoverPanics("should_not_be_none",
                                         depth_point1, depth_point2)
                    ELSE \E swap_idx1 \in LayerCandidates(p1, depth_point1),
                            swap_idx2 \in LayerCandidates(p2, depth_point2) :
                        \E cs \in {CrossoverChildren(p1, p2, swap_idx1, swap_idx2)} :
                            /\ c1' = cs[1]
                            /\ c2' = cs[2]
                            /\ gpOp' = [NoOp EXCEPT !.op = "crossover",
                                          !.d1 = depth_point1, !.d2 = depth_point2,
                                          !.swap1 = swap_idx1, !.swap2 = swap_idx2]
                            /\ gpPanic' =
                                 IF depth_to_bottom(cs[1], 0) > MaxDepth
                                    \/ depth_to_bottom(cs[2], 0) > MaxDepth
                                 THEN "depth_assert" ELSE "none"
    /\ UNCHANGED <<p1, p2, nodeVars, serVars, simVars, moreVars>>

GpNext == GenFull \/ GenGrow \/ Select \/ Mutation \/ Crossover

----------------------------------------------------------------------------
(* Specification of the simulator: one run of Simulation::simulate_until *)

\* Simulation::new, and the arguments of simulate_until
SimInit ==
    /\ problem \in Problems
    /\ routing_rule \in RoutingRules /\ sequencing_rule \in SequencingRules
    /\ time_slot \in TimeSlots /\ time_max \in TimeMaxes
    /\ time = 0
    /\ vehicles = [vehicle \in 0..(problem.num_trucks - 1) |-> NewVehicleState(problem)]
    /\ events = EmptyBag
    /\ total_distance = 0 /\ total_failed = 0
    /\ simPc = "start" /\ event = NoEvent /\ batch = <<>> /\ sweepVehicle = 0
    /\ inCall = FALSE /\ cache = <<>>
    /\ cut = FALSE
    /\ dispatchCount = ZeroCounts(problem) /\ failCount = ZeroCounts(problem)
    /\ eventLog = <<>> /\ depotFor = {}
    /\ NodeIdle /\ SerIdle /\ GpIdle /\ MoreIdle

others == <<nodeVars, serVars, gpVars, simArgs, moreVars>>

\* simulate_until 239-251: one Requests event per time slot
PushRequestEvents ==
    /\ simPc = "start"
    /\ events' = BatchedRequests(problem, time_slot)
    /\ simPc' = "loop"
    /\ UNCHANGED <<time, vehicles, total_distance, total_failed, event, batch,
                   sweepVehicle, inCall, cache, cut, dispatchCount, failCount,
                   eventLog, depotFor, others>>

\* while let Some(..) = self.events.pop(): the heap is empty
LoopEnd ==
    /\ simPc = "loop" /\ events = EmptyBag
    /\ simPc' = "post"
    /\ UNCHANGED <<time, vehicles, events, total_distance, total_failed, event,
                   batch, sweepVehicle, inCall, cache, cut, dispatchCount,
                   failCount, eventLog, depotFor, others>>

\* if event.time() > time_max { push back; break }
TimeMaxBreak ==
    /\ simPc = "loop"
    /\ \E e \in PopCandidates(events) : e.time > time_max
    /\ cut' = TRUE
    /\ simPc' = "post"
    /\ UNCHANGED <<time, vehicles, events, total_distance, total_failed, event,
                   batch, sweepVehicle, inCall, cache, dispatchCount,
                   failCount, eventLog, depotFor, others>>

\* A Requests event is popped: self.time = event.time()
PopRequests ==
    /\ simPc = "loop"
    /\ \E e \in PopCandidates(events) :
          /\ e.time <= time_max /\ e.type = "Requests"
          /\ events' = events (-) SetToBag({e})
          /\ time' = e.time
          /\ event' = e
          /\ batch' = e.requests
    /\ eventLog' = <<>>
    /\ simPc' = "batch"
    /\ UNCHANGED <<vehicles, total_distance, total_failed, sweepVehicle, inCall,
                   cache, cut, dispatchCount, failCount, depotFor, others>>

\* Faulty variant: the sweep skips every other vehicle.
NextSweepVehicle_Skip(vehicle) == vehicle + 2

\* for vehicle in 0..num_trucks: the vehicle after `vehicle`.
NextSweepVehicle(vehicle) == vehicle + 1

\* A VehicleFinish event is popped: handle_vehicle_finish only logs, and the
\* sweep begins.
PopVehicleFinish ==
    /\ simPc = "loop"
    /\ \E e \in PopCandidates(events) :
          /\ e.time <= time_max /\ e.type = "VehicleFinish"
          /\ events' = events (-) SetToBag({e})
          /\ time' = e.time
          /\ event' = e
    /\ eventLog' = <<>>
    /\ simPc' = "sweep" /\ sweepVehicle' = 0
    /\ UNCHANGED <<vehicles, total_distance, total_failed, batch, inCall,
                   cache, cut, dispatchCount, failCount, depotFor, others>>

\* for request in requests { self.handle_request(request, ..) }: one request
HandleRequest ==
    /\ simPc = "batch"
    /\ \E request \in {RequestOf(problem, Head(batch))} :
       \E out \in {handle_request(routing_rule, problem, time, vehicles, request)} :
           /\ vehicles' = out.vehicles
           /\ total_failed' = total_failed + out.failed
           /\ failCount' = [failCount EXCEPT ![request.idx] = @ + out.failed]
           /\ eventLog' = Append(eventLog, <<"route", request.idx>>)
    /\ batch' = Tail(batch)
    /\ IF Tail(batch) = <<>>
       THEN simPc' = "sweep" /\ sweepVehicle' = 0
       ELSE UNCHANGED <<simPc, sweepVehicle>>
    /\ UNCHANGED <<time, events, total_distance, event, inCall, cache, cut,
                   dispatchCount, depotFor, others>>

\* ---- update_vehicle_queue(sweepVehicle): one action per way through it.

\* The log when the call is entered here.
Entered == IF inCall THEN eventLog ELSE Append(eventLog, <<"enter", sweepVehicle>>)

\* The call returns: the sweep moves on, and after the last vehicle the main
\* loop pops again.
CallReturns ==
    /\ inCall' = FALSE /\ cache' = <<>>
    /\ eventLog' = Append(Entered, <<"exit", sweepVehicle>>)
    /\ IF NextSweepVehicle(sweepVehicle) < problem.num_trucks
       THEN sweepVehicle' = NextSweepVehicle(sweepVehicle) /\ simPc' = "sweep"
       ELSE sweepVehicle' = 0 /\ simPc' = "loop"

\* Faulty variant: the busy test of update_vehicle_queue is missing.
InLoop_Always == simPc = "sweep"

InLoop == simPc = "sweep" /\ (inCall \/ time >= vehicles[sweepVehicle].busy_until)

\* One pass through the while loop of update_vehicle_queue for the vehicle of
\* the sweep: the cache and the index sequence_request returns, the request
\* picked, the queues once it is removed, and self.time + time_cost(request).
Iteration ==
    CHOOSE it \in
      { [cache |-> after, index |-> index, request |-> request,
         removed |-> IF index = None THEN vehicles
                     ELSE [vehicles EXCEPT ![sweepVehicle].queue = swap_remove(@, index)],
         start_time |-> RoundF32(time + time_cost(problem, vehicles[sweepVehicle],
                                                   request, time))] :
          after \in {CacheAfter(sequencing_rule, problem, vehicles[sweepVehicle], cache)},
          index \in {sequence_request(sequencing_rule, problem,
                                      vehicles[sweepVehicle], cache)},
          request \in { RequestOf(problem,
                          IF sequence_request(sequencing_rule, problem,
                                              vehicles[sweepVehicle], cache) = None
                          THEN 0
                          ELSE vehicles[sweepVehicle].queue[
                                 sequence_request(sequencing_rule, problem,
                                     vehicles[sweepVehicle], cache) + 1].request) } } :
      TRUE

\* if self.time < busy_until { return }
SkipBusy ==
    /\ simPc = "sweep" /\ ~inCall
    /\ time < vehicles[sweepVehicle].busy_until
    /\ CallReturns
    /\ UNCHANGED <<time, vehicles, events, total_distance, total_failed, event,
                   batch, cut, dispatchCount, failCount, depotFor, others>>

\* sequence_request returns None: the while loop ends
QueueDrained ==
    /\ InLoop /\ vehicles[sweepVehicle].queue = <<>>
    /\ CallReturns
    /\ UNCHANGED <<time, vehicles, events, total_distance, total_failed, event,
                   batch, cut, dispatchCount, failCount, depotFor, others>>

\* Faulty variant: the picked request is taken out of the queue before the
\* vehicle goes back.
ReturnToDepot_Drops ==
    /\ InLoop /\ vehicles[sweepVehicle].queue # <<>>
    /\ \E it \in {Iteration} :
          /\ it.request.demand > vehicles[sweepVehicle].total_demand
          /\ \E out \in {route_vehicle_to(problem, time, it.removed[sweepVehicle],
                                          sweepVehicle, problem.depot)} :
                /\ vehicles' = [it.removed EXCEPT ![sweepVehicle] = out.state]
                /\ events' = events (+) SetToBag({out.event})
                /\ total_distance' = RoundF32(total_distance + out.distance)
          /\ depotFor' = depotFor \cup {it.request.idx}
    /\ CallReturns
    /\ UNCHANGED <<time, total_failed, event, batch, cut, dispatchCount,
                   failCount, others>>

\* request.demand > total_demand: back to the depot, return
ReturnToDepot ==
    /\ InLoop /\ vehicles[sweepVehicle].queue # <<>>
    /\ \E it \in {Iteration} :
          /\ it.request.demand > vehicles[sweepVehicle].total_demand
          /\ \E out \in {route_vehicle_to(problem, time, vehicles[sweepVehicle],
                                          sweepVehicle, problem.depot)} :
                /\ vehicles' = [vehicles EXCEPT ![sweepVehicle] = out.state]
                /\ events' = events (+) SetToBag({out.event})
                /\ total_distance' = RoundF32(total_distance + out.distance)
          /\ depotFor' = depotFor \cup {it.request.idx}
    /\ CallReturns
    /\ UNCHANGED <<time, total_failed, event, batch, cut, dispatchCount,
                   failCount, others>>

\* start_time > request.close: the request is removed, handed to
\* handle_request again, and the loop continues
SecondChance ==
    /\ InLoop /\ vehicles[sweepVehicle].queue # <<>>
    /\ \E it \in {Iteration} :
          /\ it.request.demand <= vehicles[sweepVehicle].total_demand
          /\ it.start_time > it.request.close
          /\ \E out \in {handle_request(routing_rule, problem, time,
                                        it.removed, it.request)} :
                /\ vehicles' = out.vehicles
                /\ total_failed' = total_failed + out.failed
                /\ failCount' = [failCount EXCEPT ![it.request.idx] = @ + out.failed]
          /\ cache' = it.cache
    /\ inCall' = TRUE
    /\ eventLog' = Entered
    /\ UNCHANGED <<time, events, total_distance, event, simPc, batch,
                   sweepVehicle, cut, dispatchCount, depotFor, others>>

\* Faulty variant: the capacity test before the dispatch is missing.
Dispatch_Unchecked ==
    /\ InLoop /\ vehicles[sweepVehicle].queue # <<>>
    /\ \E it \in {Iteration} :
          /\ it.start_time <= it.request.close
          /\ \E out \in {route_vehicle_to(problem, time, it.removed[sweepVehicle],
                                          sweepVehicle, it.request)} :
                /\ vehicles' = [it.removed EXCEPT ![sweepVehicle] = out.state]
                /\ events' = events (+) SetToBag({out.event})
                /\ total_distance' = RoundF32(total_distance + out.distance)
          /\ dispatchCount' = [dispatchCount EXCEPT ![it.request.idx] = @ + 1]
    /\ CallReturns
    /\ UNCHANGED <<time, total_failed, event, batch, cut, failCount, depotFor, others>>

\* route_vehicle_to(vehicle, request), return
Dispatch ==
    /\ InLoop /\ vehicles[sweepVehicle].queue # <<>>
    /\ \E it \in {Iteration} :
          /\ it.request.demand <= vehicles[sweepVehicle].total_demand
          /\ it.start_time <= it.request.close
          /\ \E out \in {route_vehicle_to(problem, time, it.removed[sweepVehicle],
                                          sweepVehicle, it.request)} :
                /\ vehicles' = [it.removed EXCEPT ![sweepVehicle] = out.state]
                /\ events' = events (+) SetToBag({out.event})
                /\ total_distance' = RoundF32(total_distance + out.distance)
          /\ dispatchCount' = [dispatchCount EXCEPT ![it.request.idx] = @ + 1]
    /\ CallReturns
    /\ UNCHANGED <<time, total_failed, event, batch, cut, failCount, depotFor, others>>

\* Faulty variant: no vehicle is sent back.
PostLoopFrom_Stay(vehicle, st) == st

\* The loop after the main loop: every vehicle is routed to the depot, in
\* index order.
RECURSIVE PostLoopFrom(_, _)
PostLoopFrom(vehicle, st) ==
    IF vehicle >= problem.num_trucks THEN st
    ELSE CHOOSE after \in
           { PostLoopFrom(vehicle + 1, next) :
               next \in { [vehicles |-> [st.vehicles EXCEPT ![vehicle] = out.state],
                           events |-> st.events (+) SetToBag({out.event}),
                           total_distance |-> RoundF32(st.total_distance + out.distance)] :
                          out \in {route_vehicle_to(problem, time, st.vehicles[vehicle],
                                                   vehicle, problem.depot)} } } : TRUE

\* simulate_until 278-291: the return to the depot and the result
PostLoop ==
    /\ simPc = "post"
    /\ \E st \in {PostLoopFrom(0, [vehicles |-> vehicles, events |-> events,
                                     total_distance |-> total_distance])} :
          /\ vehicles' = st.vehicles
          /\ events' = st.events
          /\ total_distance' = st.total_distance
    /\ simPc' = "done"
    /\ UNCHANGED <<time, total_failed, event, batch, sweepVehicle, inCall,
                   cache, cut, dispatchCount, failCount, eventLog, depotFor, others>>

SimNext ==
    \/ PushRequestEvents \/ LoopEnd \/ TimeMaxBreak \/ PopRequests
    \/ PopVehicleFinish \/ HandleRequest
    \/ SkipBusy \/ QueueDrained \/ ReturnToDepot \/ SecondChance \/ Dispatch
    \/ PostLoop

----------------------------------------------------------------------------
(* Specification of the heap-index geometry: depth_from_top and           *)
(* all_index_of_layer applied to the layers and indices of trees one layer *)
(* deeper than MaxDepth                                                    *)

GeoInit ==
    /\ geoPc = "args"
    /\ geoLayer \in 0..(MaxDepth + 1)
    /\ geoIndex \in 0..(2 ^ (MaxDepth + 2) - 2)
    /\ geoRange = {} /\ geoDepth = <<>>
    /\ NodeIdle /\ SerIdle /\ GpIdle /\ SimIdle /\ RampIdle /\ GaIdle /\ FnIdle

\* Self::all_index_of_layer(geoLayer)
AllIndexOfLayer ==
    /\ geoPc \in {"args", "depth"}
    /\ geoRange' = all_index_of_layer(geoLayer)
    /\ geoPc' = IF geoPc = "args" THEN "range" ELSE "both"
    /\ UNCHANGED <<geoLayer, geoIndex, geoDepth, nodeVars, serVars, gpVars,
                   simVars, rampVars, gaVars, fnVars>>

\* Self::depth_from_top of geoIndex and of its children (child_indices)
DepthFromTop ==
    /\ geoPc \in {"args", "range"}
    /\ geoDepth' = << depth_from_top(geoIndex),
                      depth_from_top(ChildIndex(geoIndex, 0)),
                      depth_from_top(ChildIndex(geoIndex, 1)) >>
    /\ geoPc' = IF geoPc = "args" THEN "depth" ELSE "both"
    /\ UNCHANGED <<geoLayer, geoIndex, geoRange, nodeVars, serVars, gpVars,
                   simVars, rampVars, gaVars, fnVars>>

GeoNext == AllIndexOfLayer \/ DepthFromTop

----------------------------------------------------------------------------
(* Specification of GPContext::ramp_half_and_half: one action per push *)

\* The largest num_population of the ramps of the model.
MaxPopulation == 9

\* Faulty variant: the whole population is divided, not its half.
per_depth_Whole(population, depth_cap) == population \div depth_cap

\* half_size / self.max_depth: the inner iterations per depth
per_depth(population, depth_cap) == (population \div 2) \div depth_cap

\* The position of the loops when `for depth in 1..self.max_depth` is at
\* `depth`: the next inner iteration, or the top-up loop.
RampAt(depth) ==
    IF depth < max_depth /\ per_depth(num_population, max_depth) > 0
    THEN [pc |-> "full", depth |-> depth]
    ELSE [pc |-> "topup", depth |-> max_depth]

RampInit ==
    /\ num_population \in 0..MaxPopulation
    /\ max_depth \in 0..(MaxDepth + 1)
    /\ rampPc = "start" /\ rampDepth = 0 /\ rampCount = 0 /\ rampV = <<>>
    /\ NodeIdle /\ SerIdle /\ GpIdle /\ SimIdle /\ GeoIdle /\ GaIdle /\ FnIdle

\* let mut v = Vec::new(); let half_size = ..; the loops are entered
RampStart ==
    /\ rampPc = "start"
    /\ rampPc' = RampAt(1).pc /\ rampDepth' = RampAt(1).depth
    /\ UNCHANGED <<num_population, max_depth, rampCount, rampV, nodeVars,
                   serVars, gpVars, simVars, geoVars, gaVars, fnVars>>

\* gen_full_at(&mut p, 0, depth); p.verify(); v.push(p)
PushFull ==
    /\ rampPc = "full"
    /\ rampV' = Append(rampV, <<"gen_full", rampDepth>>)
    /\ rampPc' = "grow"
    /\ UNCHANGED <<num_population, max_depth, rampDepth, rampCount, nodeVars,
                   serVars, gpVars, simVars, geoVars, gaVars, fnVars>>

\* gen_grow_at(&mut p, 0, depth); p.verify(); v.push(p); the loops move on
PushGrow ==
    /\ rampPc = "grow"
    /\ rampV' = Append(rampV, <<"gen_grow", rampDepth>>)
    /\ IF rampCount + 1 < per_depth(num_population, max_depth)
       THEN rampCount' = rampCount + 1 /\ rampPc' = "full" /\ UNCHANGED rampDepth
       ELSE /\ rampCount' = 0
            /\ rampPc' = RampAt(rampDepth + 1).pc
            /\ rampDepth' = RampAt(rampDepth + 1).depth
    /\ UNCHANGED <<num_population, max_depth, nodeVars, serVars, gpVars,
                   simVars, geoVars, gaVars, fnVars>>

\* while v.len() < self.num_population: gen_grow_at(&mut p, 0, self.max_depth)
TopUp ==
    /\ rampPc = "topup" /\ Len(rampV) < num_population
    /\ rampV' = Append(rampV, <<"gen_grow", max_depth>>)
    /\ UNCHANGED <<num_population, max_depth, rampPc, rampDepth, rampCount,
                   nodeVars, serVars, gpVars, simVars, geoVars, gaVars, fnVars>>

\* the while loop ends: v is returned
RampReturn ==
    /\ rampPc = "topup" /\ Len(rampV) >= num_population
    /\ rampPc' = "done"
    /\ UNCHANGED <<num_population, max_depth, rampDepth, rampCount, rampV,
                   nodeVars, serVars, gpVars, simVars, geoVars, gaVars, fnVars>>

RampNext == RampStart \/ PushFull \/ PushGrow \/ TopUp \/ RampReturn

----------------------------------------------------------------------------
(* The generational loop: main.rs *)

\* impl Display for DisplayNode (gp/program.rs 50-80): the printed form as the
\* sequence of its pieces, each a pair (text, number).  A constant prints its
\* f32 value (kept as sixteenths), a terminal TERM{index}, an internal
\* INT{index}(child, child), a null slot INVALID; the slots no internal
\* node leads to are not printed.
RECURSIVE DisplayNode(_, _)
DisplayNode(nodes, index) ==
    LET node == NodeFromU8(nodes[index + 1])
    IN  CASE node.kind = "Const"    -> << <<"f32", node.val>> >>
          [] node.kind = "Terminal" -> << <<"TERM", node.val>> >>
          [] node.kind = "Internal" ->
               << <<"INT", node.val>>, <<"(", 0>> >>
               \o DisplayNode(nodes, ChildIndex(index, 0))
               \o << <<", ", 0>> >>
               \o DisplayNode(nodes, ChildIndex(index, 1))
               \o << <<")", 0>> >>
          [] OTHER                  -> << <<"INVALID", 0>> >>

\* impl Display for Program
Display(nodes) == DisplayNode(nodes, 0)

\* Individual.result is None
NoResult == <<>>

\* format!("{}:{}", self.routing, self.sequencing)
cache_key(ind) == Display(ind.routing) \o << <<":", 0>> >> \o Display(ind.sequencing)

\* WEIGHT, in tenths (default 0.1)
WEIGHT_TENTHS == 1

\* fitness() is a quotient of f32 values; the model keeps it times
\* FitnessScale(problem), a whole number, which orders and equates the
\* results as the quotients do.
FitnessScale(prob) ==
    10 * prob.truck_speed * prob.depot.close * prob.num_trucks * Len(prob.requests)

\* fn fitness(problem, (distance, num_fail))
fitness(prob, result) ==
    LET tot_dist == prob.truck_speed * prob.depot.close * prob.num_trucks
    IN  result[1] * WEIGHT_TENTHS * Len(prob.requests)
        + result[2] * (10 - WEIGHT_TENTHS) * tot_dist

\* The fitness pop[i].result.unwrap().2 the sort and the tournament compare
FitnessOf(ind) == ind.result[3]

\* Faulty variant: the cache never answers.
CacheHit_Never(cch, key) == FALSE

\* LruCache::get_or_insert finds the key (the cache is unbounded: no entry
\* is ever dropped)
CacheHit(cch, key) == key \in DOMAIN cch

\* One more run recorded for the key.
CountRun(runs, key) ==
    [k \in DOMAIN runs \cup {key} |->
        (IF k \in DOMAIN runs THEN runs[k] ELSE 0) + (IF k = key THEN 1 ELSE 0)]

\* The sample size of select_parent
TOURNAMENT_SIZE == 8

\* rand::seq::index::sample(rng, length, amount): the index sets it can draw
\* (positions count from 1 in the model); it panics when amount > length.
IndexSamples(length, amount) ==
    { S \in SUBSET (1..length) : Cardinality(S) = amount }

\* fn select_parent: the sample is iterated in the drawn order and max_by_key
\* keeps the last of the highest keys, so every sampled index of the highest
\* fitness can be returned.
select_parent(slice) ==
    UNION { { [sample |-> S, index |-> i] :
                i \in { j \in S :
                          \A k \in S : FitnessOf(slice[k]) <= FitnessOf(slice[j]) } } :
            S \in IndexSamples(Len(slice), TOURNAMENT_SIZE) }

\* What a tournament leaves in the history: the size of its sample, the
\* fitness of the index returned, the lowest and the highest fitness sampled.
TournamentRecord(slice, t) ==
    [size    |-> Cardinality(t.sample),
     chosen  |-> FitnessOf(slice[t.index]),
     lowest  |-> CHOOSE f \in { FitnessOf(slice[k]) : k \in t.sample } :
                    \A k \in t.sample : f <= FitnessOf(slice[k]),
     highest |-> CHOOSE f \in { FitnessOf(slice[k]) : k \in t.sample } :
                    \A k \in t.sample : f >= FitnessOf(slice[k])]

\* GPContext::mutation: every program the draws can return.
mutation(p) ==
    UNION { gen_grow_at(clear_subtree(p, swap_pos), swap_pos,
                        MaxDepth - depth_from_top(swap_pos)) :
              swap_pos \in all_active_indices(p) }

\* GPContext::crossover of two programs within the depth cap: every pair of
\* children the draws can return.
crossover(q1, q2) ==
    LET depth1 == depth_to_bottom(q1, 0)
        depth2 == depth_to_bottom(q2, 0)
    IN  UNION { UNION { { CrossoverChildren(q1, q2, swap_idx1, swap_idx2) :
                            swap_idx1 \in LayerCandidates(q1, depth_point1),
                            swap_idx2 \in LayerCandidates(q2, depth_point2) } :
                        depth_point2 \in
                          min_depth_point2(depth_point1, depth2)
                          ..max_depth_point2(depth1, depth_point1, depth2) } :
                depth_point1 \in 0..depth1 }

\* The programs of the model's runs of the loop: TERM0 and
\* INT0(TERM0, TERM0).  A draw that leads to another program is not taken,
\* and the draws of a mutation are those that return INT0(TERM0, TERM0)
\* (the root regrown, or a leaf drawn again).
GaPrograms == { <<129>>, <<193, 129, 129>> }
GaMutants == { <<193, 129, 129>> }

\* The draws taken: the programs among those a call can return.
mutation_drawn(p) == mutation(p) \cap GaMutants

crossover_drawn(q1, q2) ==
    { cs \in crossover(q1, q2) : cs[1] \in GaPrograms /\ cs[2] \in GaPrograms }

\* Faulty variant: a new individual starts with a result already stored.
NewIndividual_Stale(r, s) == [routing |-> r, sequencing |-> s, result |-> <<0, 0, 0>>]

NewIndividual(r, s) == [routing |-> r, sequencing |-> s, result |-> NoResult]

\* Individual::crossover_with
crossover_with(a, b) ==
    { << NewIndividual(r[1], s[1]), NewIndividual(r[2], s[2]) >> :
        r \in crossover_drawn(a.routing, b.routing),
        s \in crossover_drawn(a.sequencing, b.sequencing) }

\* Individual::mutate
mutate(a) ==
    { NewIndividual(r, s) :
        r \in mutation_drawn(a.routing), s \in mutation_drawn(a.sequencing) }

\* The match on x of the offspring loop (main.rs 253-269): the two
\* individuals pushed.
Children(x, a, b) ==
    CASE x = "crossover" -> crossover_with(a, b)
      [] x = "mutate"    -> { <<m1, m2>> : m1 \in mutate(a), m2 \in mutate(b) }
      [] OTHER           -> { <<a, b>> }

\* GPContext::ramp_half_and_half as the vector of what built each program:
\* per depth below the cap, per_depth pairs of gen_full and gen_grow, then
\* the top-up.
RampPairs(n, depth) ==
    [k \in 1..(2 * n) |->
        IF k % 2 = 1 THEN <<"gen_full", depth>> ELSE <<"gen_grow", depth>>]

RECURSIVE RampLoops(_, _, _)
RampLoops(population, depth_cap, depth) ==
    IF depth >= depth_cap THEN <<>>
    ELSE RampPairs(per_depth(population, depth_cap), depth)
         \o RampLoops(population, depth_cap, depth + 1)

ramp_half_and_half(population, depth_cap) ==
    LET looped == RampLoops(population, depth_cap, 1)
    IN  looped \o [k \in 1..(population - Len(looped)) |-> <<"gen_grow", depth_cap>>]

\* The programs a ramp entry can be.
Generated(built) ==
    IF built[1] = "gen_full" THEN gen_full_at(<<>>, 0, built[2])
    ELSE gen_grow_at(<<>>, 0, built[2])

\* The vectors of one ramp_half_and_half call of the model: its gen_grow
\* programs take the same draws.
RampVectors(population, depth_cap) ==
    LET built == ramp_half_and_half(population, depth_cap)
    IN  { vec \in [1..Len(built) -> GaPrograms] :
            /\ \A k \in 1..Len(built) : vec[k] \in Generated(built[k])
            /\ \A j, k \in 1..Len(built) :
                 built[j][1] = "gen_grow" /\ built[k][1] = "gen_grow"
                    => vec[j] = vec[k] }

\* Individual::ramp_half_and_half: the two vectors zipped
Zipped(r_pop, s_pop) ==
    [k \in 1..Min(Len(r_pop), Len(s_pop)) |-> NewIndividual(r_pop[k], s_pop[k])]

\* The training problem of the model's runs, and the (distance, fails) its
\* simulations return, in the order they are run: both customers served, the
\* near one only, none.  No two simulations of a stream return the same, so
\* a pair simulated twice would show.
TrainingProblem ==
    [depot |-> [Depot EXCEPT !.close = 100],
     requests |-> RequestList(<< CHOOSE c \in CustomerKinds : c.kind = "near",
                                 CHOOSE c \in CustomerKinds : c.kind = "far" >>),
     truck_speed |-> TRUCK_SPEED, truck_capacity |-> 3, num_trucks |-> 1]

SimStreams == { << <<62, 0>>, <<2, 1>>, <<0, 2>> >>,
                << <<0, 2>>, <<2, 1>>, <<62, 0>> >> }

RECURSIVE TotalRuns(_)
TotalRuns(runs) ==
    IF DOMAIN runs = {} THEN 0
    ELSE LET key == CHOOSE k \in DOMAIN runs : TRUE
         IN  runs[key] + TotalRuns([k \in DOMAIN runs \ {key} |-> runs[k]])

\* Simulation::new(problem, routing, sequencing).simulate_until(..) on the
\* training problem: the next of the stream
NextOutcome(stream, runs) == stream[(TotalRuns(runs) % Len(stream)) + 1]

\* pop.sort_unstable_by_key(fitness); pop.truncate(n): the order of equal
\* keys is open.  Every vector the two statements can leave: position by
\* position, one of the remaining individuals of the lowest fitness.
RECURSIVE SortedFrom(_, _, _)
SortedFrom(individuals, remaining, n) ==
    IF n = 0 \/ remaining = {} THEN { <<>> }
    ELSE LET lowest == { i \in remaining :
                           \A j \in remaining :
                              FitnessOf(individuals[i]) <= FitnessOf(individuals[j]) }
             firsts == { i \in lowest :
                           \A j \in lowest :
                              individuals[j] = individuals[i] => i <= j }
         IN  UNION { { <<individuals[i]>> \o rest :
                         rest \in SortedFrom(individuals, remaining \ {i}, n - 1) } :
                     i \in firsts }

\* Faulty variant: when there are offspring, only they are sorted and kept
\* (the survivors of the last generation are dropped).
sort_truncate_Replace(individuals, n) ==
    IF Len(individuals) > n
    THEN SortedFrom(individuals, (n + 1)..Len(individuals), n)
    ELSE SortedFrom(individuals, 1..Len(individuals), n)

sort_truncate(individuals, n) ==
    SortedFrom(individuals, 1..Len(individuals), n)

\* POP_SIZE and NUM_GEN of the model's runs
MaxGen == 2
PopSizes == {0, 2, 8, 9}

\* gp() up to the first generation: the context, the empty cache, the
\* initial population
GaInit ==
    /\ num_population \in PopSizes /\ max_depth = MaxDepth
    /\ rampPc = "idle" /\ rampDepth = 0 /\ rampCount = 0 /\ rampV = <<>>
    /\ num_gen \in 1..MaxGen
    /\ \E r_pop \in RampVectors(num_population, max_depth),
          s_pop \in RampVectors(num_population, max_depth) :
            pop = Zipped(r_pop, s_pop)
    /\ gaCache = <<>> /\ gen = 1 /\ gaPc = "evaluate" /\ evalAt = 1
    /\ offspringIter = 0 /\ simStream \in SimStreams
    /\ simRuns = <<>> /\ fullRuns = <<>> /\ tournaments = <<>>
    /\ NodeIdle /\ SerIdle /\ GpIdle /\ SimIdle /\ GeoIdle /\ FnIdle

gaOthers == <<nodeVars, serVars, gpVars, simVars, geoVars, rampVars, fnVars>>

\* i.evaluate(&mut cache, &training_problem, train_time_slot) for the next
\* individual of pop.iter_mut()
Evaluate ==
    /\ gaPc = "evaluate" /\ evalAt <= Len(pop)
    /\ \E key \in {cache_key(pop[evalAt])} :
         IF pop[evalAt].result # NoResult
         THEN UNCHANGED <<pop, gaCache, simRuns>>
         ELSE IF CacheHit(gaCache, key)
         THEN /\ pop' = [pop EXCEPT ![evalAt].result = gaCache[key]]
              /\ UNCHANGED <<gaCache, simRuns>>
         ELSE \E outcome \in {NextOutcome(simStream, simRuns)} :
                \E result \in { <<outcome[1], outcome[2],
                                  fitness(TrainingProblem, outcome)>> } :
                   /\ pop' = [pop EXCEPT ![evalAt].result = result]
                   /\ gaCache' = [k \in DOMAIN gaCache \cup {key} |->
                                    IF k = key THEN result ELSE gaCache[k]]
                   /\ simRuns' = CountRun(simRuns, key)
    /\ evalAt' = evalAt + 1
    /\ UNCHANGED <<num_gen, simStream, gaPc, gen, offspringIter, fullRuns, tournaments,
                   gaOthers>>

\* pop.sort_unstable_by_key(..); pop.truncate(gpc.num_population)
SortTruncate ==
    /\ gaPc = "evaluate" /\ evalAt > Len(pop)
    /\ \E sorted \in sort_truncate(pop, num_population) : pop' = sorted
    /\ gaPc' = "best"
    /\ UNCHANGED <<num_gen, simStream, gaCache, gen, evalAt, offspringIter, simRuns,
                   fullRuns, tournaments, gaOthers>>

\* main.rs 201-246: pop[0] is read (a panic on an empty population), logged
\* and simulated on the full problem.
LogBest ==
    /\ gaPc = "best"
    /\ IF pop = <<>>
       THEN gaPc' = "panic" /\ UNCHANGED fullRuns
       ELSE /\ gaPc' = "offspring"
            /\ fullRuns' = CountRun(fullRuns, cache_key(pop[1]))
    /\ offspringIter' = 0
    /\ UNCHANGED <<num_gen, simStream, pop, gaCache, gen, evalAt, simRuns, tournaments,
                   gaOthers>>

\* One iteration of `for _ in 0..gpc.num_population / 2`: two tournaments on
\* pop[0..num_population], the draw of x, two individuals pushed.
Offspring ==
    /\ gaPc = "offspring" /\ offspringIter < num_population \div 2
    /\ \E slice \in {SubSeq(pop, 1, num_population)} :
         IF Len(slice) < TOURNAMENT_SIZE
         THEN /\ gaPc' = "panic"
              /\ UNCHANGED <<pop, offspringIter, tournaments>>
         ELSE \E selected \in { { [parent |-> slice[t.index],
                                      record |-> TournamentRecord(slice, t)] :
                                       t \in select_parent(slice) } } :
              \E s1 \in selected, s2 \in selected :
              \E x \in {"crossover", "mutate", "clone"} :
              \E pushed \in Children(x, s1.parent, s2.parent) :
                 /\ pop' = pop \o pushed
                 /\ tournaments' = <<s1.record, s2.record>>
                 /\ offspringIter' = offspringIter + 1
                 /\ UNCHANGED gaPc
    /\ UNCHANGED <<num_gen, simStream, gaCache, gen, evalAt, simRuns, fullRuns, gaOthers>>

\* The offspring loop ends: the next generation, or the end of gp()
EndGeneration ==
    /\ gaPc = "offspring" /\ offspringIter >= num_population \div 2
    /\ IF gen = num_gen
       THEN gaPc' = "done" /\ UNCHANGED <<gen, evalAt>>
       ELSE gaPc' = "evaluate" /\ gen' = gen + 1 /\ evalAt' = 1
    /\ UNCHANGED <<num_gen, simStream, pop, gaCache, offspringIter, simRuns, fullRuns,
                   tournaments, gaOthers>>

GaNext == Evaluate \/ SortTruncate \/ LogBest \/ Offspring \/ EndGeneration

----------------------------------------------------------------------------
(* Single calls: the pre-loop of simulate_until on its own *)

MaxBatched == 2

\* Arrival times: small ones, and whole numbers above 2^24, where f32 keeps
\* only the even ones (or fewer).
BatchArrivals == {0, 1, 2, 3, 4, 5, 25165834, 58720280, 2 ^ 28}
BatchSlots == {2, 3, 7}

\* Problems whose customers differ in their arrival times only.
TimedProblems ==
    { [depot |-> Depot,
       requests |-> [k \in 1..Len(arrivals) |->
                       [idx |-> k, kind |-> "timed", x |-> 1, demand |-> 1,
                        open |-> 0, close |-> 2 ^ 30,
                        service_time |-> SERVICE_TIME, time |-> arrivals[k]]],
       truck_speed |-> TRUCK_SPEED, truck_capacity |-> 3, num_trucks |-> 1] :
        arrivals \in UNION { [1..n -> BatchArrivals] : n \in 1..MaxBatched } }

BatchInit ==
    /\ fnPc = "args"
    /\ fnArgs \in [prob : TimedProblems, slot : BatchSlots]
    /\ fnRet = <<>>
    /\ NodeIdle /\ SerIdle /\ GpIdle /\ SimIdle /\ GeoIdle /\ RampIdle /\ GaIdle

\* simulate_until 239-251: the heap after the Requests events are pushed
PushBatches ==
    /\ fnPc = "args"
    /\ fnRet' = BatchedRequests(fnArgs.prob, fnArgs.slot)
    /\ fnPc' = "ret"
    /\ UNCHANGED <<fnArgs, nodeVars, serVars, gpVars, simVars, geoVars, rampVars, gaVars>>

BatchNext == PushBatches

----------------------------------------------------------------------------
(* Single calls: one pass of the loop of update_vehicle_queue on its own *)

\* The time of the call, the windows <<open, close>> of the queued customer
\* (some of width 0, some above 2^24) and where it lies.
RerouteTimes == 0..5
RerouteWindows ==
    { <<0, 0>>, <<0, 100>>, <<3, 3>>, <<10, 10>>, <<10, 20>>, <<50, 20>>,
      <<2 ^ 24 + 2, 2 ^ 24 + 2>>, <<2 ^ 24 + 6, 2 ^ 24 + 6>>, <<2 ^ 24 + 6, 2 ^ 24 + 8>> }
ReroutePlaces == {1, 30}

WindowProblems ==
    { [depot |-> Depot,
       requests |-> << [idx |-> 1, kind |-> "window", x |-> place, demand |-> 1,
                        open |-> window[1], close |-> window[2],
                        service_time |-> SERVICE_TIME, time |-> 0] >>,
       truck_speed |-> TRUCK_SPEED, truck_capacity |-> 3, num_trucks |-> 1] :
        window \in RerouteWindows, place \in ReroutePlaces }

RerouteInit ==
    /\ fnPc = "args"
    /\ fnArgs \in [prob : WindowProblems, t : RerouteTimes, rule : RoutingRules]
    /\ fnRet = <<>>
    /\ NodeIdle /\ SerIdle /\ GpIdle /\ SimIdle /\ GeoIdle /\ RampIdle /\ GaIdle

\* update_vehicle_queue 350-356 for the only vehicle, idle at the depot, with
\* the customer picked and removed from its queue: the start time and, when
\* it is past close, what handle_request does with the request.
QueuePass ==
    /\ fnPc = "args"
    /\ \E request \in {fnArgs.prob.requests[1]},
          vs \in {[vehicle \in {0} |-> NewVehicleState(fnArgs.prob)]} :
       \E start_time \in {RoundF32(fnArgs.t + time_cost(fnArgs.prob, vs[0],
                                                         request, fnArgs.t))} :
          fnRet' = [start_time |-> start_time,
                    rejected |-> start_time > request.close,
                    out |-> IF start_time > request.close
                            THEN handle_request(fnArgs.rule, fnArgs.prob, fnArgs.t,
                                                vs, request)
                            ELSE [vehicles |-> vs, failed |-> 0, vehicle |-> None]]
    /\ fnPc' = "ret"
    /\ UNCHANGED <<fnArgs, nodeVars, serVars, gpVars, simVars, geoVars, rampVars, gaVars>>

RerouteNext == QueuePass

----------------------------------------------------------------------------
(* Single calls: Program::verify on any backing array *)

MaxSlots == 4

\* The null byte, a terminal and an internal node of two children.
VerifyBytes == {NullByte, 129, 193}

VerifyInit ==
    /\ fnPc = "args"
    /\ fnArgs \in UNION { [1..n -> VerifyBytes] : n \in 1..MaxSlots }
    /\ fnRet = <<>>
    /\ NodeIdle /\ SerIdle /\ GpIdle /\ SimIdle /\ GeoIdle /\ RampIdle /\ GaIdle

\* self.verify() in a build with debug assertions: it returns ("pass"), its
\* assertion fails ("assert"), or all_active_indices reads past the end.
VerifyCall ==
    /\ fnPc = "args"
    /\ fnRet' = IF TraversalPanics(fnArgs, 0) THEN "out_of_bounds"
                ELSE IF verify(fnArgs) THEN "pass" ELSE "assert"
    /\ fnPc' = "ret"
    /\ UNCHANGED <<fnArgs, nodeVars, serVars, gpVars, simVars, geoVars, rampVars, gaVars>>

VerifyNext == VerifyCall

----------------------------------------------------------------------------
(* Single calls: Problem::clone_training (sim/problem.rs) *)

MaxCloned == 3

\* The customers of the problems to clone.  Their times are such that
\* (time + open * 1.5) / 2.5 = (2 * time + 3 * open) / 5 is a whole number.
CloneCustomers ==
    { [kind |-> "a", x |-> 1,  demand |-> 2, open |-> 0,  close |-> 100, time |-> 0],
      [kind |-> "b", x |-> 30, demand |-> 1, open |-> 0,  close |-> 60,  time |-> 5],
      [kind |-> "c", x |-> 2,  demand |-> 3, open |-> 10, close |-> 50,  time |-> 10],
      [kind |-> "d", x |-> 7,  demand |-> 1, open |-> 20, close |-> 90,  time |-> 20] }

CloneProblems ==
    { [depot |-> Depot, requests |-> RequestList(kinds), truck_speed |-> TRUCK_SPEED,
       truck_capacity |-> 3, num_trucks |-> trucks] :
        kinds \in UNION { [1..n -> CloneCustomers] : n \in 1..MaxCloned },
        trucks \in 1..NumTrucks }

TimeLimits == {4, 10, 30}
StressFactors == {1, 2}

\* Faulty variant: every request is taken for a late one.
IsLate_Always(req, time_limit) == TRUE

\* if req.time > time_limit
IsLate(req, time_limit) == req.time > time_limit

\* The body of the loop of clone_training from the k-th request on, with
\* current_index and turn as they are then: the requests pushed, or the
\* panic of self.requests[current_index] read past the end, and the idx of
\* the requests read as time_req.
RECURSIVE CloneFrom(_, _, _, _, _, _)
CloneFrom(prob, time_limit, stress_factor, k, current_index, turn) ==
    IF k > Len(prob.requests)
    THEN [requests |-> <<>>, panicked |-> FALSE, templates |-> {}]
    ELSE
      LET scaled == [prob.requests[k] EXCEPT !.x = @ * stress_factor,
                                              !.service_time = @ * stress_factor]
          time_req == prob.requests[current_index + 1]
          moved == [scaled EXCEPT
                      !.time = time_limit * turn
                               + (2 * time_req.time + 3 * time_req.open) \div 5,
                      !.open = time_limit * turn + time_req.open,
                      !.close = time_limit * turn + time_req.close]
          wrapped == IsLate(prob.requests[current_index + 2], time_limit)
          rest == IF ~IsLate(prob.requests[k], time_limit)
                  THEN CloneFrom(prob, time_limit, stress_factor, k + 1,
                                 current_index, turn)
                  ELSE IF wrapped
                  THEN CloneFrom(prob, time_limit, stress_factor, k + 1, 0, turn + 1)
                  ELSE CloneFrom(prob, time_limit, stress_factor, k + 1,
                                 current_index + 1, turn)
      IN  IF IsLate(prob.requests[k], time_limit)
             /\ current_index + 2 > Len(prob.requests)
          THEN [requests |-> <<>>, panicked |-> TRUE, templates |-> {time_req.idx}]
          ELSE [requests |-> << IF IsLate(prob.requests[k], time_limit)
                                THEN moved ELSE scaled >> \o rest.requests,
                panicked |-> rest.panicked,
                templates |-> IF IsLate(prob.requests[k], time_limit)
                              THEN {time_req.idx} \cup rest.templates
                              ELSE rest.templates]

\* Problem::clone_training
clone_training(prob, time_limit, stress_factor) ==
    LET looped == CloneFrom(prob, time_limit, stress_factor, 1, 0, 0)
    IN  [panicked |-> looped.panicked, templates |-> looped.templates,
         problem |-> IF looped.panicked THEN prob
                     ELSE [depot |-> prob.depot, requests |-> looped.requests,
                           truck_speed |-> prob.truck_speed,
                           num_trucks |-> prob.num_trucks,
                           truck_capacity |-> prob.truck_capacity]]

CloneInit ==
    /\ fnPc = "args"
    /\ fnArgs \in [prob : CloneProblems, time_limit : TimeLimits,
                    stress_factor : StressFactors]
    /\ fnRet = <<>>
    /\ NodeIdle /\ SerIdle /\ GpIdle /\ SimIdle /\ GeoIdle /\ RampIdle /\ GaIdle

\* problem.clone_training(time_limit, stress_factor)  (main.rs 186)
CloneTraining ==
    /\ fnPc = "args"
    /\ fnRet' = clone_training(fnArgs.prob, fnArgs.time_limit, fnArgs.stress_factor)
    /\ fnPc' = "ret"
    /\ UNCHANGED <<fnArgs, nodeVars, serVars, gpVars, simVars, geoVars, rampVars, gaVars>>

CloneNext == CloneTraining

----------------------------------------------------------------------------
(* Single calls: fitness (main.rs) as the f32 value it is *)

MaxWeighed == 2

\* An f32: a finite quotient num / den of whole numbers, an infinity or NaN.
Finite(num, den) == [kind |-> "finite", num |-> num, den |-> den]
Inf == [kind |-> "inf", num |-> 0, den |-> 1]
NaN == [kind |-> "nan", num |-> 0, den |-> 1]

\* a / b for whole a >= 0 and b >= 0: IEEE 754 gives NaN for 0 / 0 and an
\* infinity for a / 0 with a > 0.
DivF32(a, b) == IF b # 0 THEN Finite(a, b) ELSE IF a = 0 THEN NaN ELSE Inf

\* f * w for a weight w >= 0 given in tenths.
TimesTenths(f, w) ==
    IF f.kind = "nan" THEN NaN
    ELSE IF f.kind = "inf" THEN (IF w = 0 THEN NaN ELSE Inf)
    ELSE Finite(f.num * w, f.den * 10)

\* f + g for f, g that are not negative.
PlusF32(f, g) ==
    IF f.kind = "nan" \/ g.kind = "nan" THEN NaN
    ELSE IF f.kind = "inf" \/ g.kind = "inf" THEN Inf
    ELSE Finite(f.num * g.den + g.num * f.den, f.den * g.den)

\* fn fitness(problem, (distance, num_fail)) with WEIGHT = weight_tenths / 10;
\* where it is finite, `fitness` above is this value times FitnessScale.
fitness_f32(prob, result, weight_tenths) ==
    LET tot_dist == prob.truck_speed * prob.depot.close * prob.num_trucks
    IN  PlusF32(TimesTenths(DivF32(result[1], tot_dist), weight_tenths),
                TimesTenths(DivF32(result[2], Len(prob.requests)), 10 - weight_tenths))

\* Problems of 0..MaxWeighed customers, and for each the results a
\* simulation can return: no distance and no failure without customers,
\* otherwise some distance and at most one failure per customer.
WeighedProblems ==
    { [depot |-> [Depot EXCEPT !.close = 100], requests |-> RequestList(kinds),
       truck_speed |-> TRUCK_SPEED, truck_capacity |-> 3, num_trucks |-> trucks] :
        kinds \in UNION { [1..n -> { c \in CustomerKinds : c.kind \in {"near", "far"} }] :
                            n \in 0..MaxWeighed },
        trucks \in 1..NumTrucks }

ResultsOn(prob) ==
    IF prob.requests = <<>> THEN { <<0, 0>> }
    ELSE {0, 2, 62, 124} \X (0..Len(prob.requests))

WeightTenths == {0, WEIGHT_TENTHS, 5, 10}

FitnessInit ==
    /\ fnPc = "args"
    /\ \E prob \in WeighedProblems, weight \in WeightTenths :
       \E result \in ResultsOn(prob) :
          fnArgs = [prob |-> prob, result |-> result, weight |-> weight]
    /\ fnRet = <<>>
    /\ NodeIdle /\ SerIdle /\ GpIdle /\ SimIdle /\ GeoIdle /\ RampIdle /\ GaIdle

\* fitness(&problem, result)  (main.rs 100, 167, 218)
FitnessCall ==
    /\ fnPc = "args"
    /\ fnRet' = fitness_f32(fnArgs.prob, fnArgs.result, fnArgs.weight)
    /\ fnPc' = "ret"
    /\ UNCHANGED <<fnArgs, nodeVars, serVars, gpVars, simVars, geoVars, rampVars, gaVars>>

FitnessNext == FitnessCall

----------------------------------------------------------------------------

vars == <<nodeVars, serVars, gpVars, simVars, moreVars>>

NodeSpec == NodeInit /\ [][NodeNext]_vars

SerSpec == SerInit /\ [][SerNext]_vars

GpSpec == GpInit /\ [][GpNext]_vars

SimSpec == SimInit /\ [][SimNext]_vars

\* The simulation is one sequential program: it keeps taking steps.  The
\* fair runs are those on the problems of fewer than NumCustomers customers.
FairSimInit == SimInit /\ Len(problem.requests) < NumCustomers

FairSimSpec == FairSimInit /\ [][SimNext]_vars /\ WF_vars(SimNext)

GeoSpec == GeoInit /\ [][GeoNext]_vars

RampSpec == RampInit /\ [][RampNext]_vars

GaSpec == GaInit /\ [][GaNext]_vars

BatchSpec == BatchInit /\ [][BatchNext]_vars

RerouteSpec == RerouteInit /\ [][RerouteNext]_vars

VerifySpec == VerifyInit /\ [][VerifyNext]_vars

CloneSpec == CloneInit /\ [][CloneNext]_vars

FitnessSpec == FitnessInit /\ [][FitnessNext]_vars

----------------------------------------------------------------------------
(* Claims about the GP engine (GpSpec) *)

\* The representation invariant of a program: the traversal stays inside the
\* array, and a slot is active exactly when its byte is not null.
WellFormed(nodes) ==
    /\ nodes # <<>>
    /\ ~TraversalPanics(nodes, 0)
    /\ \A idx \in 0..(Len(nodes) - 1) :
          (idx \in all_active_indices(nodes)) <=> ~IsNull(nodes[idx + 1])

DepthOk(nodes) == depth_to_bottom(nodes, 0) <= MaxDepth

\* The programs the last call returned.
Returned == {c1, c2} \ {<<>>}

\* C3: for well-formed parents of depth <= MAX_DEPTH and every outcome of the
\* draws of crossover (depth points and swap indices), both children have
\* depth_to_bottom(root) <= MAX_DEPTH.
C3_CrossoverDepthBound ==
    (/\ gpOp.op = "crossover" /\ c1 # <<>>
     /\ WellFormed(p1) /\ WellFormed(p2) /\ DepthOk(p1) /\ DepthOk(p2))
    => (DepthOk(c1) /\ DepthOk(c2))

\* A crossover below the root between two parents of full depth, whose first
\* child again has full depth.
C3_Witness ==
    /\ gpOp.op = "crossover" /\ c1 # <<>> /\ c1 # p1
    /\ gpOp.d1 > 0 /\ gpOp.d2 > 0
    /\ depth_to_bottom(p1, 0) = MaxDepth /\ depth_to_bottom(p2, 0) = MaxDepth
    /\ depth_to_bottom(c1, 0) = MaxDepth

\* C4: a program built by gen_full_at(root, d) or gen_grow_at(root, d) with
\* d <= MAX_DEPTH, and the mutation of a program of depth <= MAX_DEPTH at any
\* active index, has depth_to_bottom(root) <= MAX_DEPTH.
C4_GenMutationDepthBound ==
    /\ (gpOp.op \in {"gen_full", "gen_grow"} /\ c1 # <<>>) => DepthOk(c1)
    /\ (gpOp.op = "mutation" /\ c1 # <<>> /\ DepthOk(p1)) => DepthOk(c1)

\* A mutation below the root that regrows the subtree to the full depth.
C4_Witness ==
    /\ gpOp.op = "mutation" /\ gpOp.swap1 > 0 /\ c1 # p1
    /\ depth_to_bottom(p1, 0) < MaxDepth
    /\ depth_to_bottom(c1, 0) = MaxDepth

\* C5: every program returned by gen_full_at, gen_grow_at, mutation or
\* crossover (from well-formed arguments) is well-formed: its active indices
\* hold non-null bytes and every other slot of the array holds the null byte.
C5_WellFormedPreserved ==
    ((p1 = <<>> \/ WellFormed(p1)) /\ (p2 = <<>> \/ WellFormed(p2)))
    => \A n \in Returned : WellFormed(n)

\* A crossover child that keeps null padding behind its last active index.
C5_Witness ==
    /\ gpOp.op = "crossover" /\ c1 # <<>>
    /\ Len(c1) > SetMax(all_active_indices(c1)) + 1
    /\ WellFormed(c1) /\ WellFormed(c2)

----------------------------------------------------------------------------
(* Claims about the serialisation (SerSpec) and the node encoding (NodeSpec) *)

\* MAX_DEPTH as the program sets it when the environment does not (main.rs).
DEFAULT_MAX_DEPTH == 6

\* The most slots a program of depth <= MAX_DEPTH occupies.
MaxProgramSlots == 2 ^ (DEFAULT_MAX_DEPTH + 1) - 1

\* C6: run_length_decode(run_length_encode(v)) = v for arbitrary byte vectors,
\* runs of 256 or more equal bytes included.
C6_RleRoundTrip == serPc = "decoded" => dec = v

----------------------------------------------------------------------------
(* Claims about the simulator (SimSpec, FairSimSpec) *)

\* The customers that were dispatched to.
Served == { idx \in DOMAIN dispatchCount : dispatchCount[idx] > 0 }

\* The customers sitting in some vehicle's queue.
Queued ==
    UNION { { vehicles[vehicle].queue[k].request : k \in 1..Len(vehicles[vehicle].queue) } :
              vehicle \in DOMAIN vehicles }

\* Every customer's window is open <= close and its demand fits a truck.
OrdinaryProblem ==
    \A k \in 1..Len(problem.requests) :
        /\ problem.requests[k].open <= problem.requests[k].close
        /\ problem.requests[k].demand <= problem.truck_capacity

\* C1: when simulate_until has run until the heap was exhausted (no time_max
\* cut), num_failed plus the number of distinct customers dispatched to equals
\* the number of customers, total_distance >= 0, and no customer is left in a
\* vehicle queue.
C1_Conservation ==
    (simPc = "done" /\ ~cut /\ OrdinaryProblem) =>
        /\ total_failed + Cardinality(Served) = Len(problem.requests)
        /\ total_distance >= 0
        /\ Queued = {}

\* Every customer's window is open <= close.
ProperWindows ==
    \A k \in 1..Len(problem.requests) :
        problem.requests[k].open <= problem.requests[k].close

\* C2: the main loop of simulate_until terminates, the inner loop of
\* update_vehicle_queue and the capacity-triggered depot returns included:
\* every run (here: on a problem of finitely many customers with proper
\* windows, under a finite time_max) reaches the return of simulate_until.
C2_Terminates == ProperWindows => <>(simPc = "done")

\* C9: the events are processed in non-decreasing time order: sim.time never
\* decreases, and no pending event (a pushed VehicleFinish included) is
\* earlier than sim.time.
C9_TimeOrder ==
    /\ [][time' >= time]_vars
    /\ [](\A e \in BagToSet(events) : e.time >= time)

\* A vehicle's finish was processed while a later event was pending.
C9_Witness ==
    /\ simPc = "sweep" /\ event.type = "VehicleFinish" /\ time > 0
    /\ \E e \in BagToSet(events) : e.time > time

\* The entries of the log with the given tag.
LogOf(tag) == SelectSeq(eventLog, LAMBDA entry : entry[1] = tag)

\* The log without its "route" entries.
Calls == SelectSeq(eventLog, LAMBDA entry : entry[1] # "route")

\* C10: within one processed event every request of the batch is routed
\* before any vehicle's queue service runs; the sweep visits the vehicles in
\* ascending index from 0, and each update_vehicle_queue call completes before
\* the next starts.
C10_BatchThenSweep ==
    /\ simPc = "sweep" =>
          /\ batch = <<>>
          /\ [k \in 1..Len(LogOf("route")) |-> LogOf("route")[k][2]] = event.requests
    /\ \A k \in 1..Len(eventLog) :
          eventLog[k][1] = "route" => k <= Len(LogOf("route"))
    /\ \A k \in 1..Len(Calls) :
          /\ Calls[k][2] = (k - 1) \div 2
          /\ Calls[k][1] = IF k % 2 = 1 THEN "enter" ELSE "exit"
    /\ (simPc = "loop" /\ event # NoEvent) => Len(Calls) = 2 * problem.num_trucks

\* A batch of two requests was routed, the first vehicle's call dispatched it
\* and returned, and the second vehicle's call is next.
C10_Witness ==
    /\ simPc = "sweep" /\ sweepVehicle = 1
    /\ Len(event.requests) >= 2 /\ Len(LogOf("route")) >= 2
    /\ Calls = << <<"enter", 0>>, <<"exit", 0>> >>
    /\ vehicles[0].busy_until > time

\* The vehicle reaches the request before it closes when it leaves its
\* position now: time + distance(position, request) / speed <= close.
ReachesInTime(vs, vehicle, request) ==
    RoundF32(time + dist(RequestOf(problem, vs[vehicle].cur_request).x - request.x)
                      \div problem.truck_speed) <= request.close

\* A step is handle_request(request) on the vehicles vs: the request joins the
\* queue of a vehicle that reaches it in time and has the least routing value
\* among those that do, or no vehicle reaches it, no queue changes and
\* num_failed grows by one.
Handled(vs, request) ==
    LET feasible == { vehicle \in DOMAIN vs : ReachesInTime(vs, vehicle, request) }
        value(vehicle) == RoutingValue(routing_rule, problem, vs[vehicle], request, time)
    IN  IF feasible = {}
        THEN vehicles' = vs /\ total_failed' = total_failed + 1
        ELSE /\ total_failed' = total_failed
             /\ \E vehicle \in feasible :
                   /\ vehicles' = [vs EXCEPT ![vehicle].queue =
                                     Append(@, [request |-> request.idx,
                                                ready_time |-> time])]
                   /\ \A other \in feasible : value(vehicle) <= value(other)

\* C11: handle_request enqueues request r at time t only onto a vehicle with
\* t + distance(position, r) / speed <= r.close that has the least routing
\* value among the vehicles satisfying it; if none does, no queue changes and
\* num_failed grows by exactly one.  The calls are those of the batch and
\* those of the second chance (on the queues without the entry picked).
C11_RoutingDecision ==
    [][/\ simPc = "batch" => Handled(vehicles, RequestOf(problem, Head(batch)))
       /\ (simPc = "sweep" /\ inCall') =>
             \E k \in 1..Len(vehicles[sweepVehicle].queue) :
                Handled([vehicles EXCEPT ![sweepVehicle].queue = swap_remove(@, k - 1)],
                        RequestOf(problem, vehicles[sweepVehicle].queue[k].request))]_vars

\* A request of the batch went to the second vehicle although the first one
\* reaches it in time as well.
C11_Witness ==
    /\ simPc \in {"batch", "sweep"} /\ ~inCall /\ problem.num_trucks >= 2
    /\ \E k \in 1..Len(vehicles[1].queue) :
          /\ vehicles[1].queue[k].ready_time = time
          /\ ReachesInTime(vehicles, 0, RequestOf(problem, vehicles[1].queue[k].request))
          /\ \E o \in 1..Len(eventLog) :
                eventLog[o] = <<"route", vehicles[1].queue[k].request>>

\* The only customer of a problem of one customer, and the time its batch
\* fires.
OnlyCustomer == problem.requests[1]

OnlyBatchTime == BatchTime(timeslot_idx(OnlyCustomer, time_slot), time_slot)

DepotDistance(request) == dist(problem.depot.x - request.x)

\* C13: with one truck and one customer c of demand <= capacity that the truck
\* reaches from the depot before c.close when c's batch fires, simulate_until
\* returns num_failed = 0 and total_distance = 2 * dist(depot, c).
C13_SingleCustomerServed ==
    (/\ simPc = "done"
     /\ problem.num_trucks = 1 /\ Len(problem.requests) = 1
     /\ OnlyCustomer.demand <= problem.truck_capacity
     /\ RoundF32(OnlyBatchTime + DepotDistance(OnlyCustomer) \div problem.truck_speed)
           <= OnlyCustomer.close)
    => (total_failed = 0 /\ total_distance = 2 * DepotDistance(OnlyCustomer))

\* The run on the far customer alone returned: 30 out and 30 back.
C13_Witness ==
    /\ simPc = "done" /\ problem.num_trucks = 1 /\ Len(problem.requests) = 1
    /\ OnlyCustomer.kind = "far" /\ dispatchCount[1] = 1
    /\ total_failed = 0 /\ total_distance = 60

\* C14: with one customer c that no truck reaches in time from the depot
\* (c.close < arrival + dist(depot, c) / speed), routing rejects it: no vehicle
\* ever leaves the depot, total_distance stays 0, and simulate_until returns
\* num_failed = 1 and total_distance = 0.
C14_SingleCustomerRejected ==
    (/\ simPc # "idle" /\ Len(problem.requests) = 1
     /\ OnlyCustomer.close
           < RoundF32(OnlyCustomer.time + DepotDistance(OnlyCustomer) \div problem.truck_speed))
    => /\ \A vehicle \in DOMAIN vehicles :
             vehicles[vehicle].cur_request = 0 /\ vehicles[vehicle].queue = <<>>
       /\ total_distance = 0 /\ dispatchCount[1] = 0
       /\ simPc = "done" => total_failed = 1

\* The run of two trucks on the late customer alone returned.
C14_Witness ==
    /\ simPc = "done" /\ problem.num_trucks = 2 /\ Len(problem.requests) = 1
    /\ OnlyCustomer.kind = "late" /\ total_failed = 1 /\ total_distance = 0
    /\ \A vehicle \in DOMAIN vehicles : vehicles[vehicle].busy_until > 0

\* The time service starts when the vehicle leaves its position now for the
\* request: max(sim.time + distance / speed, open).
ServiceStart(vehicle, request) ==
    Max(RoundF32(time + dist(RequestOf(problem, vehicles[vehicle].cur_request).x
                             - request.x) \div problem.truck_speed),
        request.open)

\* C16: every customer update_vehicle_queue dispatches a vehicle to has
\* service start max(sim.time + distance/speed, open) <= close; an entry
\* whose start would exceed close is removed from the queue, not dispatched by
\* that call, and handed to handle_request again at the current time.
C16_WindowCheck ==
    [][/\ \A idx \in DOMAIN dispatchCount :
             dispatchCount'[idx] > dispatchCount[idx] =>
                /\ ServiceStart(sweepVehicle, RequestOf(problem, idx))
                      <= RequestOf(problem, idx).close
                /\ vehicles'[sweepVehicle].cur_request = idx
                /\ vehicles'[sweepVehicle].busy_until
                      = ServiceStart(sweepVehicle, RequestOf(problem, idx))
                        + RequestOf(problem, idx).service_time
       /\ (simPc = "sweep" /\ inCall') =>
             /\ dispatchCount' = dispatchCount /\ events' = events
             /\ vehicles'[sweepVehicle].cur_request = vehicles[sweepVehicle].cur_request
             /\ \E k \in 1..Len(vehicles[sweepVehicle].queue) :
                  LET request == RequestOf(problem, vehicles[sweepVehicle].queue[k].request)
                  IN  /\ ServiceStart(sweepVehicle, request) > request.close
                      /\ Handled([vehicles EXCEPT ![sweepVehicle].queue =
                                    swap_remove(@, k - 1)], request)]_vars

\* The queue service of a vehicle gave a customer with a proper window its
\* second chance, and routing moved it to another vehicle's queue.
C16_Witness ==
    /\ simPc = "sweep" /\ inCall /\ ProperWindows /\ time > 0
    /\ \E vehicle \in DOMAIN vehicles \ {sweepVehicle} :
          \E k \in 1..Len(vehicles[vehicle].queue) :
             /\ vehicles[vehicle].queue[k].ready_time = time
             /\ ServiceStart(sweepVehicle,
                             RequestOf(problem, vehicles[vehicle].queue[k].request))
                  > RequestOf(problem, vehicles[vehicle].queue[k].request).close

\* The active indices of a program on one layer.
ActiveOnLayer(nodes, layer) ==
    { i \in all_active_indices(nodes) : depth_from_top(i) = layer }

\* C15: crossover never dies on well-formed parents of depth <= MAX_DEPTH: for
\* every draw of d1 in [0, depth(p1)] the range
\* [max(0, d1 + depth(p2) - MAX_DEPTH), min(depth(p2), MAX_DEPTH - depth(p1) + d1)]
\* of d2 is not empty, layer d1 of p1 and every layer d2 of the range of p2
\* hold an active index, and the depth assertions on the children hold.
C15_CrossoverNeverPanics ==
    /\ gpPanic = "none"
    /\ (/\ p1 # <<>> /\ p2 # <<>>
        /\ WellFormed(p1) /\ WellFormed(p2) /\ DepthOk(p1) /\ DepthOk(p2))
       => \A d1 \in 0..depth_to_bottom(p1, 0) :
             LET lo == Max(0, d1 + depth_to_bottom(p2, 0) - MaxDepth)
                 hi == Min(depth_to_bottom(p2, 0),
                           MaxDepth - depth_to_bottom(p1, 0) + d1)
             IN  /\ lo <= hi
                 /\ ActiveOnLayer(p1, d1) # {}
                 /\ \A d2 \in lo..hi : ActiveOnLayer(p2, d2) # {}
    /\ (gpOp.op = "crossover" /\ c1 # <<>>) =>
          /\ depth_to_bottom(c1, 0) <= MaxDepth
          /\ depth_to_bottom(c2, 0) <= MaxDepth

\* A crossover between the bottom layers of two parents of full depth whose
\* bottom layers have empty slots returned its children.
C15_Witness ==
    /\ gpOp.op = "crossover" /\ c1 # <<>> /\ gpPanic = "none"
    /\ gpOp.d1 = MaxDepth /\ gpOp.d2 = MaxDepth
    /\ Cardinality(ActiveOnLayer(p1, MaxDepth)) < 2 ^ MaxDepth
    /\ Cardinality(ActiveOnLayer(p2, MaxDepth)) < 2 ^ MaxDepth

----------------------------------------------------------------------------
(* Claims about the ramp and the heap-index geometry (RampSpec, GeoSpec) *)

\* The number of programs of v built by the given generator at the given depth.
Built(generator, depth) ==
    Cardinality({ k \in 1..Len(rampV) : rampV[k] = <<generator, depth>> })

\* C19: ramp_half_and_half returns exactly N = num_population programs: for
\* each depth d in [1, MAX_DEPTH) floor(N / (2 * MAX_DEPTH)) built by
\* gen_full(d) and as many by gen_grow(d), every other one by
\* gen_grow(MAX_DEPTH); the total never exceeds N before the top-up.
C19_RampCounts ==
    /\ rampPc \in {"full", "grow", "topup"} => Len(rampV) <= num_population
    /\ rampPc = "done" =>
          /\ Len(rampV) = num_population
          /\ \A d \in 1..(max_depth - 1) :
                /\ Built("gen_full", d) = num_population \div (2 * max_depth)
                /\ Built("gen_grow", d) = num_population \div (2 * max_depth)
          /\ \A k \in 1..Len(rampV) :
                \/ rampV[k][2] \in 1..(max_depth - 1)
                \/ rampV[k] = <<"gen_grow", max_depth>>

\* A ramp of two depths below the cap returned: two programs of each kind
\* per depth and one topped up.
C19_Witness ==
    /\ rampPc = "done" /\ max_depth = 3 /\ num_population = 9
    /\ Built("gen_full", 1) = 1 /\ Built("gen_grow", 2) = 1
    /\ Built("gen_grow", 3) = 5

\* C20: all_index_of_layer(l) is the half-open range [2^l - 1, 2^(l+1) - 1);
\* depth_from_top(i) = floor(log2(i + 1)) is the one layer l with i in
\* all_index_of_layer(l); the children 2i+1 and 2i+2 of an index of layer l
\* lie on layer l + 1.
C20_HeapGeometry ==
    /\ geoPc \in {"range", "both"} =>
          geoRange = { i \in 0..(2 ^ (geoLayer + 1)) :
                         2 ^ geoLayer - 1 <= i /\ i < 2 ^ (geoLayer + 1) - 1 }
    /\ geoPc \in {"depth", "both"} =>
          /\ 2 ^ geoDepth[1] <= geoIndex + 1
          /\ geoIndex + 1 < 2 ^ (geoDepth[1] + 1)
          /\ geoDepth[2] = geoDepth[1] + 1
          /\ geoDepth[3] = geoDepth[1] + 1
    /\ geoPc = "both" => (geoIndex \in geoRange <=> geoDepth[1] = geoLayer)

\* The last index of layer 2 and the range of layer 2 were computed.
C20_Witness ==
    /\ geoPc = "both" /\ geoLayer = 2 /\ geoIndex = 6
    /\ geoRange = 3..6 /\ geoDepth = <<2, 3, 3>>

----------------------------------------------------------------------------
(* Claims about the generational loop (GaSpec) *)

\* C12: select_parent samples 8 distinct indices of the population and
\* returns the sampled index of the lowest fitness: no other sampled
\* individual has a strictly lower fitness than the one returned.
C12_TournamentKeepsBest ==
    \A k \in 1..Len(tournaments) :
        /\ tournaments[k].size = TOURNAMENT_SIZE
        /\ tournaments[k].chosen = tournaments[k].lowest

\* What the code does instead: the index returned has the highest fitness of
\* its sample.
C12_TournamentKeepsWorst ==
    \A k \in 1..Len(tournaments) :
        /\ tournaments[k].size = TOURNAMENT_SIZE
        /\ tournaments[k].chosen = tournaments[k].highest

\* A tournament whose sample holds two fitness values has been run.
C12_MixedTournament ==
    \E k \in 1..Len(tournaments) : tournaments[k].lowest < tournaments[k].highest

Evaluated(i) == pop[i].result # NoResult

Ascending ==
    \A i, j \in 1..Len(pop) : i <= j => FitnessOf(pop[i]) <= FitnessOf(pop[j])

\* C18: in every generation, after the sort and the truncation the population
\* holds exactly POP_SIZE individuals in non-decreasing order of fitness, and
\* the offspring loop then adds exactly POP_SIZE offspring.
C18_GenerationSize ==
    /\ gaPc = "best" => Len(pop) = num_population /\ Ascending
    /\ (gaPc = "offspring" /\ offspringIter >= num_population \div 2)
          => Len(pop) = 2 * num_population

\* What the code does: the loop runs POP_SIZE / 2 times and pushes two each
\* time.
C18_OffspringInPairs ==
    /\ gaPc = "best" => Len(pop) = num_population /\ Ascending
    /\ gaPc = "offspring"
          => Len(pop) = num_population + 2 * offspringIter
             /\ offspringIter <= num_population \div 2

\* The offspring loop of an odd population has ended.
C18_OddDone ==
    /\ gaPc = "offspring" /\ offspringIter >= num_population \div 2
    /\ num_population % 2 = 1

----------------------------------------------------------------------------
(* Claims about the dispatch, the depot return and the batches (SimSpec) *)

\* A step is route_vehicle_to(v, r) at self.time, in the words of C23.
Routed(veh, r) ==
    LET d == dist(RequestOf(problem, vehicles[veh].cur_request).x - r.x)
        finish == RoundF32(Max(RoundF32(time + d \div problem.truck_speed), r.open)
                           + r.service_time)
    IN  /\ total_distance' = RoundF32(total_distance + d)
        /\ events' = events (+) SetToBag({VehicleFinish(veh, r.idx, finish)})
        /\ vehicles'[veh].cur_request = r.idx
        /\ vehicles'[veh].busy_until = finish
        /\ vehicles'[veh].total_demand =
              IF r.idx = 0 THEN problem.truck_capacity
              ELSE vehicles[veh].total_demand - r.demand
        /\ \A o \in DOMAIN vehicles : o # veh => vehicles'[o] = vehicles[o]

\* The customers dispatched by a step.
DispatchedNow == { idx \in DOMAIN dispatchCount : dispatchCount'[idx] # dispatchCount[idx] }

\* C23: route_vehicle_to(v, r) at sim.time adds dist(v.position, r) to
\* total_distance, pushes exactly one VehicleFinish{v, r, finish} with
\* finish = max(sim.time + dist / speed, r.open) + r.service_time, sets
\* v.position = r and v.busy_until = finish, restores the capacity at the
\* depot and otherwise lowers it by r.demand, and changes no other vehicle.
\* The calls are the dispatch of a customer and the return to the depot of
\* the queue service.
C23_DispatchEffects ==
    [][simPc = "sweep" =>
         /\ \A idx \in DispatchedNow :
               /\ DispatchedNow = {idx}
               /\ Routed(sweepVehicle, RequestOf(problem, idx))
         /\ (DispatchedNow = {} /\ events' # events) =>
               Routed(sweepVehicle, problem.depot)]_vars

\* A vehicle is on its way to a customer it had to wait for or travel to,
\* its VehicleFinish pending, and another vehicle has gone back to the depot
\* from a customer.
C23_Witness ==
    \E a, b \in DOMAIN vehicles :
        /\ a # b
        /\ vehicles[a].cur_request # 0
        /\ vehicles[a].total_demand < problem.truck_capacity
        /\ \E e \in BagToSet(events) :
              /\ e.type = "VehicleFinish" /\ e.vehicle = a
              /\ e.request = vehicles[a].cur_request
              /\ e.time = vehicles[a].busy_until
        /\ vehicles[b].cur_request = 0 /\ vehicles[b].busy_until > 0
        /\ simPc = "sweep"

PickedExceedsCapacity ==
    /\ InLoop /\ vehicles[sweepVehicle].queue # <<>>
    /\ Iteration.request.demand > vehicles[sweepVehicle].total_demand

RequestsEventsOf(evs, idx) ==
    { e \in BagToSet(evs) :
        e.type = "Requests" /\ \E k \in 1..Len(e.requests) : e.requests[k] = idx }

Occurrences(s, idx) == Cardinality({ k \in 1..Len(s) : s[k] = idx })

\* t is not before arrival and less than a slot after it.
InSlotOf(t, arrival, slot) == arrival <= t /\ t < arrival + slot

\* C25 as stated, on the pre-loop alone: every customer is in exactly one
\* Requests event, and the time t of that event is r.time <= t < r.time + slot.
C25_OfferedInSlot ==
    fnPc = "ret" =>
        \A idx \in 1..Len(fnArgs.prob.requests) :
            /\ Cardinality(RequestsEventsOf(fnRet, idx)) = 1
            /\ \A e \in RequestsEventsOf(fnRet, idx) :
                  /\ CopiesIn(e, fnRet) = 1
                  /\ Occurrences(e.requests, idx) = 1
                  /\ InSlotOf(e.time, fnArgs.prob.requests[idx].time, fnArgs.slot)

\* What holds of the simulator on the problems of SimSpec, whose arrival times
\* divide exactly: the pre-loop puts every customer into exactly one Requests event,
\* once, at the time ceil(r.time / slot) * slot; no Requests event is pushed
\* later; and a customer is handed to handle_request at a time t with
\* r.time <= t < r.time + slot, the time of its event.
C25_SimulatorBatches ==
    /\ [][simPc = "start" =>
            \A idx \in 1..Len(problem.requests) :
                /\ Cardinality(RequestsEventsOf(events', idx)) = 1
                /\ \A e \in RequestsEventsOf(events', idx) :
                      /\ CopiesIn(e, events') = 1
                      /\ Occurrences(e.requests, idx) = 1
                      /\ InSlotOf(e.time, problem.requests[idx].time, time_slot)]_vars
    /\ [][simPc # "start" =>
            \A e \in BagToSet(events') :
                e.type = "Requests" => CopiesIn(e, events') <= CopiesIn(e, events)]_vars
    /\ [](simPc = "batch" =>
            /\ batch # <<>> /\ time = event.time
            /\ \A k \in 1..Len(batch) :
                  InSlotOf(time, problem.requests[batch[k]].time, time_slot))
    /\ [][\A idx \in 1..Len(problem.requests) :
            eventLog' = Append(eventLog, <<"route", idx>>) =>
                /\ simPc = "batch" /\ idx = Head(batch)
                /\ RequestsEventsOf(events, idx) = {}]_vars

\* A batch holds a customer that arrived strictly inside the slot before it,
\* next to a later batch still pending.
C25_BatchOfLateArrival ==
    /\ simPc = "batch"
    /\ \E k \in 1..Len(batch) : problem.requests[batch[k]].time < time
    /\ \E e \in BagToSet(events) : e.type = "Requests" /\ e.time > time

\* total_distance after the legs back to the depot of the vehicles from
\* `vehicle` on are added to d, in index order.
RECURSIVE WithLastLegs(_, _)
WithLastLegs(vehicle, d) ==
    IF vehicle >= problem.num_trucks THEN d
    ELSE WithLastLegs(vehicle + 1,
            RoundF32(d + DepotDistance(RequestOf(problem, vehicles[vehicle].cur_request))))

AllHome ==
    \A vehicle \in DOMAIN vehicles :
        /\ vehicles[vehicle].cur_request = 0
        /\ vehicles[vehicle].total_demand = problem.truck_capacity

\* C26: the step that ends simulate_until leaves every vehicle at the depot
\* with remaining capacity truck_capacity and adds to total_distance, for
\* each vehicle, the distance from where it was to the depot (0 for a vehicle
\* at the depot); the returned state has every vehicle at the depot, full.
C26_PostLoopReturn ==
    /\ [][simPc = "post" =>
            /\ simPc' = "done"
            /\ total_distance' = WithLastLegs(0, total_distance)
            /\ (\A vehicle \in DOMAIN vehicles : vehicles[vehicle].cur_request = 0)
                  => total_distance' = total_distance
            /\ total_failed' = total_failed]_vars
    /\ [](simPc = "done" => AllHome)

\* simulate_until has returned on two trucks: one was at the depot when the
\* loop ended (its last VehicleFinish is a service time away), the other came
\* back over a leg of positive length, and a customer was served.
C26_Witness ==
    /\ simPc = "done" /\ AllHome /\ total_distance > 0
    /\ \E idx \in DOMAIN dispatchCount : dispatchCount[idx] > 0
    /\ \E a, b \in DOMAIN vehicles :
          /\ VehicleFinish(a, 0, RoundF32(time + SERVICE_TIME)) \in BagToSet(events)
          /\ \E e \in BagToSet(events) :
                /\ e.type = "VehicleFinish" /\ e.vehicle = b /\ e.request = 0
                /\ e.time > RoundF32(time + SERVICE_TIME)

\* C30: every vehicle's remaining capacity stays within 0..truck_capacity, and
\* a customer is dispatched to only when its demand is at most the remaining
\* capacity of the vehicle, which then goes down by that demand.
C30_RemainingCapacity ==
    /\ [](\A vehicle \in DOMAIN vehicles :
             /\ 0 <= vehicles[vehicle].total_demand
             /\ vehicles[vehicle].total_demand <= problem.truck_capacity)
    /\ [][\A idx \in DispatchedNow :
            /\ simPc = "sweep"
            /\ RequestOf(problem, idx).demand <= vehicles[sweepVehicle].total_demand
            /\ vehicles'[sweepVehicle].total_demand =
                  vehicles[sweepVehicle].total_demand - RequestOf(problem, idx).demand]_vars

\* A vehicle has used up its capacity and is out at a customer, with a
\* customer of positive demand waiting in its queue.
C30_Witness ==
    \E vehicle \in DOMAIN vehicles :
        /\ vehicles[vehicle].total_demand = 0
        /\ vehicles[vehicle].cur_request # 0
        /\ \E k \in 1..Len(vehicles[vehicle].queue) :
              RequestOf(problem, vehicles[vehicle].queue[k].request).demand > 0

----------------------------------------------------------------------------
(* Claims about single passes of the queue service (RerouteSpec) *)

\* The customer of the pass, and whether the pass put it back on the vehicle
\* that had just removed it.
PassCustomer == fnArgs.prob.requests[1]

BackOnRejecter == fnRet.rejected /\ fnRet.out.vehicle = 0

\* C29 as stated: for a customer with open <= close, a vehicle that removes
\* the request because time + time_cost > close fails the routing test
\* time + raw_time_cost <= close, so the request is not put back on it.
C29_NeverBackOnRejecter ==
    (fnPc = "ret" /\ PassCustomer.open <= PassCustomer.close) => ~BackOnRejecter

\* C29, amended: the same for a customer with open < close; the rejected
\* request is then counted failed when this is the only vehicle.
C29_NotBackWhenWindowHasWidth ==
    (fnPc = "ret" /\ PassCustomer.open < PassCustomer.close /\ fnRet.rejected) =>
        /\ ~(0 \in RoutingCandidates(fnArgs.prob, fnArgs.t,
                                     [vehicle \in {0} |-> NewVehicleState(fnArgs.prob)],
                                     PassCustomer))
        /\ fnRet.out.vehicle = None /\ fnRet.out.failed = 1
        /\ fnRet.out.vehicles[0].queue = <<>>

\* A customer whose window has width is rejected by the vehicle: it is too
\* far to reach before close.
C29_Witness ==
    /\ fnPc = "ret" /\ PassCustomer.open < PassCustomer.close
    /\ fnRet.rejected /\ fnRet.out.failed = 1
    /\ PassCustomer.open > fnArgs.t

\* In the simulator, on the problems of SimSpec: a second-chance step for a
\* customer with open <= close does not put it back on the vehicle of the call.
C29_SimulatorReroutes ==
    [][(/\ InLoop /\ vehicles[sweepVehicle].queue # <<>>
        /\ Iteration.request.demand <= vehicles[sweepVehicle].total_demand
        /\ Iteration.start_time > Iteration.request.close
        /\ Iteration.request.open <= Iteration.request.close)
       => \A k \in 1..Len(vehicles'[sweepVehicle].queue) :
              vehicles'[sweepVehicle].queue[k].request # Iteration.request.idx]_vars

----------------------------------------------------------------------------
(* Claims about Program::verify (VerifySpec) *)

\* C28 as stated: verify passes only if every slot of the backing array is
\* an active index exactly when its byte is not null.
C28_VerifyEnforces ==
    (fnPc = "ret" /\ fnRet = "pass") =>
        \A idx \in 0..(Len(fnArgs) - 1) :
            (idx \in all_active_indices(fnArgs)) <=> ~IsNull(fnArgs[idx + 1])

\* What the check does: it fails only when no slot at all is an active index
\* exactly when its byte is not null.
C28_VerifyRejectsOnlyAllWrong ==
    (fnPc = "ret" /\ fnRet = "assert") =>
        \A idx \in 0..(Len(fnArgs) - 1) :
            (idx \in all_active_indices(fnArgs)) <=> IsNull(fnArgs[idx + 1])

----------------------------------------------------------------------------
(* Claims about the sub-tree exchange of crossover (GpSpec) *)

\* The sub-tree of `child` rooted at i is node for node the sub-tree of
\* `parent` rooted at j: the same byte, and the same below every child.
RECURSIVE SameSubtree(_, _, _, _)
SameSubtree(child, i, parent, j) ==
    /\ i < Len(child) /\ j < Len(parent)
    /\ child[i + 1] = parent[j + 1]
    /\ \A k \in 0..(Cardinality(ChildrenOf(parent, j)) - 1) :
          SameSubtree(child, ChildIndex(i, k), parent, ChildIndex(j, k))

\* `child` is `parent` at every active index of either that is not below s
\* (s included).
SameOutside(child, parent, s) ==
    /\ \A i \in all_active_indices(parent) \ collect_all_active_indices(parent, s) :
          i < Len(child) /\ child[i + 1] = parent[i + 1]
    /\ \A i \in all_active_indices(child) \ collect_all_active_indices(child, s) :
          i < Len(parent) /\ child[i + 1] = parent[i + 1]

CrossoverReturned == gpOp.op = "crossover" /\ c1 # <<>> /\ gpPanic = "none"

\* C27: after crossover(p1, p2) with swap indices s1 and s2, c1 is p1 outside
\* the sub-tree at s1 and carries at s1 the sub-tree of p2 at s2, node for
\* node; c2 likewise with the parents and indices exchanged; the call leaves
\* p1 and p2 as they were.
C27_SubtreeExchange ==
    /\ [](CrossoverReturned =>
            /\ SameOutside(c1, p1, gpOp.swap1)
            /\ SameSubtree(c1, gpOp.swap1, p2, gpOp.swap2)
            /\ SameOutside(c2, p2, gpOp.swap2)
            /\ SameSubtree(c2, gpOp.swap2, p1, gpOp.swap1))
    /\ [][(NoPending /\ p1 # <<>> /\ p2 # <<>>) => (p1' = p1 /\ p2' = p2)]_vars

\* A crossover has exchanged, below the roots and at different indices, a
\* terminal of p1 for an internal node of p2 with its children.
C27_Witness ==
    /\ CrossoverReturned
    /\ gpOp.swap1 > 0 /\ gpOp.swap2 > 0 /\ gpOp.swap1 # gpOp.swap2
    /\ ChildrenOf(p1, gpOp.swap1) = {}
    /\ ChildrenOf(p2, gpOp.swap2) # {}
    /\ c1 # p1 /\ c2 # p2

----------------------------------------------------------------------------
(* Claims about Problem::clone_training (CloneSpec) *)

Cloned == fnPc = "ret" /\ ~fnRet.panicked

\* C22: a clone_training that returns leaves the depot, the truck speed, the
\* truck capacity and the truck count as they are, returns as many customers
\* in the same order with the same idx and demand, and leaves time, open and
\* close of every customer that arrives by time_limit unchanged; the source
\* problem is not modified.
C22_CloneFrame ==
    /\ [](Cloned =>
            /\ fnRet.problem.depot = fnArgs.prob.depot
            /\ fnRet.problem.truck_speed = fnArgs.prob.truck_speed
            /\ fnRet.problem.truck_capacity = fnArgs.prob.truck_capacity
            /\ fnRet.problem.num_trucks = fnArgs.prob.num_trucks
            /\ Len(fnRet.problem.requests) = Len(fnArgs.prob.requests)
            /\ \A k \in 1..Len(fnArgs.prob.requests) :
                  /\ fnRet.problem.requests[k].idx = fnArgs.prob.requests[k].idx
                  /\ fnRet.problem.requests[k].demand = fnArgs.prob.requests[k].demand
                  /\ fnArgs.prob.requests[k].time <= fnArgs.time_limit =>
                        /\ fnRet.problem.requests[k].time = fnArgs.prob.requests[k].time
                        /\ fnRet.problem.requests[k].open = fnArgs.prob.requests[k].open
                        /\ fnRet.problem.requests[k].close = fnArgs.prob.requests[k].close)
    /\ [][fnArgs' = fnArgs]_vars

\* A clone has returned, with a stress factor of 2, in which one customer
\* that arrived after time_limit got a new time and window and another, that
\* arrived in time, kept its own.
C22_Witness ==
    /\ Cloned /\ fnArgs.stress_factor = 2
    /\ \E k, m \in 1..Len(fnArgs.prob.requests) :
          /\ fnArgs.prob.requests[k].time > fnArgs.time_limit
          /\ fnRet.problem.requests[k].close # fnArgs.prob.requests[k].close
          /\ fnArgs.prob.requests[m].time <= fnArgs.time_limit
          /\ fnArgs.prob.requests[m].time > 0
          /\ fnRet.problem.requests[m].x = 2 * fnArgs.prob.requests[m].x

\* The one call that does not return: a single customer that arrives after
\* time_limit makes the loop read self.requests[1].
C22_PanicOnlyOnSingleLate ==
    (fnPc = "ret" /\ fnRet.panicked) =>
        /\ Len(fnArgs.prob.requests) = 1
        /\ fnArgs.prob.requests[1].time > fnArgs.time_limit

\* C35 as stated: for every problem with at least one customer and every
\* time_limit, clone_training returns without reading self.requests past the
\* end, and every template it reads arrives by time_limit.
C35_CloneTotal ==
    (fnPc = "ret" /\ Len(fnArgs.prob.requests) >= 1) =>
        /\ ~fnRet.panicked
        /\ \A idx \in fnRet.templates :
              fnArgs.prob.requests[idx].time <= fnArgs.time_limit

\* A call that returned although it read a template that arrives after
\* time_limit.
C35_LateTemplateRead ==
    /\ Cloned
    /\ \E idx \in fnRet.templates :
          fnArgs.prob.requests[idx].time > fnArgs.time_limit

\* What holds: the call returns whenever the problem has two customers or
\* more, and reads late templates only when the first customer is late.
C35_ReturnsOnTwoOrMore ==
    (fnPc = "ret" /\ Len(fnArgs.prob.requests) >= 2) =>
        /\ ~fnRet.panicked
        /\ (~IsLate(fnArgs.prob.requests[1], fnArgs.time_limit)) =>
              \A idx \in fnRet.templates :
                 fnArgs.prob.requests[idx].time <= fnArgs.time_limit

----------------------------------------------------------------------------
(* Claims about fitness (FitnessSpec) *)

FiniteNonNegative(f) == f.kind = "finite" /\ f.num >= 0 /\ f.den > 0

\* C21 as stated: the fitness of every simulation result of every problem, a
\* problem without customers included, and for every weight in [0, 1], is a
\* finite non-negative real.
C21_FitnessFinite ==
    fnPc = "ret" => FiniteNonNegative(fnRet)

\* What holds: the fitness is finite and not negative when the problem has
\* customers, and NaN when it has none.
C21_FiniteWithCustomers ==
    fnPc = "ret" =>
        IF fnArgs.prob.requests # <<>> THEN FiniteNonNegative(fnRet)
        ELSE fnRet.kind = "nan"

\* The best fitness of the population the last sort and truncation left: the
\* survivors are the first num_population individuals, the offspring come
\* after them.
BestOfSurvivors ==
    CHOOSE f \in { FitnessOf(pop[k]) : k \in 1..Min(num_population, Len(pop)) } :
        \A k \in 1..Min(num_population, Len(pop)) : f <= FitnessOf(pop[k])

\* C33: the sort and truncation of a generation after the first leaves a
\* population whose best (lowest) fitness is at most the best fitness of the
\* population the generation before was truncated to; an individual that has
\* a result keeps it while the offspring are evaluated.
C33_Elitism ==
    /\ [][(gaPc = "evaluate" /\ evalAt > Len(pop) /\ gen > 1) =>
            /\ pop' # <<>>
            /\ FitnessOf(pop'[1]) <= BestOfSurvivors
            /\ \A k \in 1..Len(pop') : FitnessOf(pop'[1]) <= FitnessOf(pop'[k])]_vars
    /\ [][(gaPc = "evaluate" /\ gen > 1) =>
            \A k \in 1..Min(num_population, Len(pop)) : pop'[k] = pop[k]
               \/ (evalAt > Len(pop))]_vars

\* The second generation has been sorted and truncated: survivors and
\* offspring of two fitness values competed, and the best is in front.
C33_Witness ==
    /\ gen = 2 /\ gaPc = "best" /\ Len(pop) = num_population /\ pop # <<>>
    /\ FitnessOf(pop[1]) < FitnessOf(pop[Len(pop)])
    /\ Cardinality(DOMAIN gaCache) >= 2

\* The programs of an individual, without its result.
ProgramsOf(ind) == <<ind.routing, ind.sequencing>>

\* C34: a result that is present is the one the training simulation of the
\* individual's current programs gave (the entry of its key, which is written
\* by that simulation and never rewritten); the two individuals an offspring
\* iteration pushes either have no result (crossover_with, mutate) or are a
\* parent as it stands, programs and result (clone); and no step changes the
\* programs of an individual: evaluation keeps them in place, sorting only
\* reorders and drops individuals, the offspring loop only appends.
C34_ResultConsistency ==
    /\ [](\A i \in 1..Len(pop) :
            Evaluated(i) =>
               /\ cache_key(pop[i]) \in DOMAIN gaCache
               /\ pop[i].result = gaCache[cache_key(pop[i])]
               /\ pop[i].result[3]
                     = fitness(TrainingProblem, <<pop[i].result[1], pop[i].result[2]>>))
    /\ [][ /\ \A key \in DOMAIN gaCache :
                key \in DOMAIN gaCache' /\ gaCache'[key] = gaCache[key]
           /\ \A key \in DOMAIN gaCache' \ DOMAIN gaCache :
                /\ simRuns' = CountRun(simRuns, key)
                /\ gaCache'[key][1] = NextOutcome(simStream, simRuns)[1]
                /\ gaCache'[key][2] = NextOutcome(simStream, simRuns)[2]
           /\ (gaPc = "offspring" /\ Len(pop') > Len(pop)) =>
                /\ Len(pop') = Len(pop) + 2
                /\ SubSeq(pop', 1, Len(pop)) = pop
                /\ \/ \A k \in (Len(pop) + 1)..Len(pop') : pop'[k].result = NoResult
                   \/ \A k \in (Len(pop) + 1)..Len(pop') :
                         \E j \in 1..Min(num_population, Len(pop)) :
                            pop'[k] = pop[j] /\ Evaluated(j)
           /\ (gaPc = "evaluate" /\ evalAt <= Len(pop)) =>
                /\ Len(pop') = Len(pop)
                /\ \A k \in 1..Len(pop) : ProgramsOf(pop'[k]) = ProgramsOf(pop[k])
                /\ \A k \in 1..Len(pop) : Evaluated(k) => pop'[k] = pop[k]
           /\ (gaPc = "evaluate" /\ evalAt > Len(pop)) =>
                \A k \in 1..Len(pop') : \E j \in 1..Len(pop) : pop'[k] = pop[j]
         ]_vars

\* The evaluation of the second generation has passed the survivors and reads
\* what the offspring loop pushed: ahead of it are a clone, equal to a
\* survivor and holding its result, and a child that has no result yet;
\* behind it an individual that has been given the result of its key.
C34_Witness ==
    /\ gen = 2 /\ gaPc = "evaluate"
    /\ evalAt > num_population + 1 /\ evalAt <= Len(pop)
    /\ Evaluated(evalAt - 1)
    /\ Cardinality(DOMAIN gaCache) >= 2
    /\ \E i, j \in evalAt..Len(pop) :
          /\ Evaluated(i) /\ \E k \in 1..num_population : pop[i] = pop[k]
          /\ ~Evaluated(j)

\* The number of queue entries, over all vehicles, that hold customer idx.
QueueEntriesOf(idx) ==
    Cardinality({ <<vehicle, k>> \in UNION { { <<veh, j>> : j \in 1..Len(vehicles[veh].queue) } :
                                               veh \in DOMAIN vehicles } :
                    vehicles[vehicle].queue[k].request = idx })

\* C31: in every state of a run each customer has at most one queue entry
\* over all vehicles, has been dispatched at most once, has been counted
\* failed at most once, and is never both; a customer that was dispatched or
\* counted failed is in no queue, and num_failed is the number of customers
\* counted.
C31_RequestUniqueness ==
    /\ \A idx \in DOMAIN dispatchCount :
          /\ QueueEntriesOf(idx) <= 1
          /\ dispatchCount[idx] <= 1
          /\ failCount[idx] <= 1
          /\ dispatchCount[idx] + failCount[idx] <= 1
          /\ dispatchCount[idx] + failCount[idx] = 1 => QueueEntriesOf(idx) = 0
    /\ simPc # "idle" =>
          total_failed = Cardinality({ idx \in DOMAIN failCount : failCount[idx] = 1 })

\* Three customers, one of each fate: one waits in a queue behind a busy
\* vehicle, one has been dispatched, one has been counted failed.
C31_Witness ==
    /\ simPc = "loop"
    /\ \E a, b, c \in DOMAIN dispatchCount :
          /\ QueueEntriesOf(a) = 1
          /\ dispatchCount[b] = 1
          /\ failCount[c] = 1

\* The vehicles that are busy at the clock of the simulation.
BusyVehicles == { vehicle \in DOMAIN vehicles : vehicles[vehicle].busy_until > time }

\* A VehicleFinish event for the vehicle at its busy_until is in the heap.
WakeUpPending(vehicle) ==
    \E e \in BagToSet(events) :
       /\ e.type = "VehicleFinish" /\ e.vehicle = vehicle
       /\ e.time = vehicles[vehicle].busy_until

\* C32: whenever the main loop is about to pop an event, every vehicle whose
\* busy_until is later than the clock has a VehicleFinish event of its own in
\* the heap with exactly that time; queue service dispatches a vehicle only
\* when its busy_until is not later than the clock, and the dispatch pushes
\* the vehicle's next wake-up; so, while the loop keeps running (it is not cut
\* by time_max), a busy vehicle with a non-empty queue comes up again in a
\* sweep whose clock has reached its busy_until.
C32_WakeUp ==
    /\ [](simPc = "loop" => \A vehicle \in BusyVehicles : WakeUpPending(vehicle))
    /\ [][(simPc = "sweep" /\ dispatchCount' # dispatchCount) =>
             /\ vehicles[sweepVehicle].busy_until <= time
             /\ \E e \in BagToSet(events') :
                   /\ e.type = "VehicleFinish" /\ e.vehicle = sweepVehicle
                   /\ e.time = vehicles'[sweepVehicle].busy_until
                   /\ e.time >= time]_vars
    /\ \A vehicle \in 0..(NumTrucks - 1) :
          (simPc = "loop" /\ vehicle \in BusyVehicles
              /\ vehicles[vehicle].queue # <<>>)
          ~> \/ cut
             \/ /\ simPc = "sweep" /\ sweepVehicle = vehicle
                /\ time >= vehicles[vehicle].busy_until

\* The wake-up of a vehicle has been popped and the sweep is at that vehicle:
\* the clock is its busy_until and a customer is waiting in its queue.
C32_Witness ==
    /\ simPc = "sweep" /\ ~inCall
    /\ event.type = "VehicleFinish" /\ event.vehicle = sweepVehicle
    /\ time = vehicles[sweepVehicle].busy_until /\ time > 0
    /\ vehicles[sweepVehicle].queue # <<>>

====
